---- MODULE Spec2Model ----
(***************************************************************************)
(* A model of the OnRamp command line tool and backend library:            *)
(*   - db/migrations.py : MigrationManager and the prepmigrations/migrate  *)
(*                        commands of cli.py                               *)
(*   - app.py           : file based route discovery, handler adaptation   *)
(*                        and request dispatch                             *)
(*   - cli.py           : the process orchestrator (run_uvicorn_with_watch,*)
(*                        cleanup_processes, signal_handler)               *)
(* Each subsystem has its own specification; the variables of the other    *)
(* subsystems stay at their initial value.                                 *)
(***************************************************************************)
EXTENDS Integers, Sequences, FiniteSets, TLC

VARIABLES
    \* ---- migrations (db/migrations.py, cli.py handle_*) ----
    fs,         \* the project files the migration manager reads and writes
    opName,     \* the operation that ran last ("none" before the first)
    opLog,      \* the aerich subprocesses that operation ran, in order
    opRet,      \* what that operation returned
    exitCode,   \* the exit code of the last CLI command (NoCode: an API call)
    calls,      \* number of operations so far
    \* ---- route path derivation (app.py _load_route_file) ----
    fileName,   \* a file name found in the api directory, as characters
    routePath,  \* the route path derived from it
    derived,    \* TRUE once routePath has been derived
    \* ---- route discovery and dispatch (app.py) ----
    apiDirExists, \* os.path.exists(api_dir)
    sysPath,    \* sys.path
    apiFiles,   \* os.listdir(api_dir): the route files, in listing order
    nextFile,   \* index of the next file discover_file_routes loads
    routes,     \* OnRamp.routes
    sysModules, \* the api_* entries of sys.modules
    lastRequest,  \* the last request served: [route, method]
    lastCall,     \* how the user's handler was invoked for it
    lastResult,   \* what that call evaluated to (the wrapper's result)
    lastResponse, \* the response it got
    \* ---- model metaclass (db/models.py) ----
    word,       \* the word given to _pluralize, or the name of the class
    meta,       \* the Meta of the class namespace when __new__ is called
    newMeta,    \* the Meta of the namespace when __new__ returns
    mpc,        \* "start", "pluralized" (_pluralize returned) or "defined"
    plural,     \* what _pluralize returned (NoWord: it was not called)
    \* ---- settings and command dispatch (cli.py load_settings, main) ----
    cpc,          \* "import" (cli.py is being imported), "loaded", "returned"
    settingsFile, \* app/settings.py as found on disk
    settings,     \* the module-level settings object
    argv,         \* the parsed command line
    dispatched,   \* the functions main called for the command, in order
    project,      \* the directory PROJECT_ROOT/<name> of `new`, as on disk
    nodeOk,       \* require_node finds, or gets, a recent enough Node
    \* ---- process orchestrator (cli.py) ----
    wpc,        \* where the main thread of the CLI is
    buildDir,   \* os.path.exists(BUILD_DIR)
    faulty,     \* the children whose poll, terminate, wait or kill may raise
    attempted,  \* the children cleanup_processes has polled in this call
    lastChanges, \* the changes of the notification the watch loop got last:
                 \* skipped, or being handled by a restart; {} once the
                 \* replacement runs or the loop is left
    backend,    \* settings.BACKEND
    subcommand, \* "run" (run_command_logic), "web" (web, run --web-only),
                \* "ios" or "android"
    busyPorts,  \* the ports on which something listens
    port,       \* the port of run_uvicorn_with_watch
    procState,  \* per child: "unborn", "running", "killed" (SIGKILL sent,
                \* not dead yet) or "exited"
    spawned,    \* spawned_processes
    proc,       \* the current worker of run_uvicorn_with_watch (NoPid: None)
    popened,    \* a child that was started and is not yet appended
    frontend,   \* the bundler / terminal child (NoPid: none)
    cleanupCtx, \* who called cleanup_processes: "finally", "atexit", "signal"
    cleanupIdx, \* the position of its loop in spawned_processes
    termSent,   \* the children that were sent terminate()
    killSent,   \* the children that were sent kill()
    restartLog, \* the calls of the current restart step, in order
    nSignals,   \* interrupt signals delivered
    exitVia,    \* how the CLI exited: "atexit" or "signal"
    nNotifs,    \* notifications delivered
    nRestartNotifs, \* notifications holding a path that matches no pattern
    lastNotif,  \* the last notification: "ignored" or "restart"
    nWorkerSpawns,  \* backend workers started
    prompt      \* the port prompt: "none", "accepted" or "declined"

migVars == <<fs, opName, opLog, opRet, exitCode, calls>>
pathVars == <<fileName, routePath, derived>>
routeVars == <<apiDirExists, sysPath, apiFiles, nextFile, routes, sysModules, lastRequest, lastCall,
               lastResult, lastResponse>>

watchVars == <<wpc, faulty, attempted, lastChanges, buildDir, backend,
               subcommand, busyPorts, port,
               procState, spawned, proc, popened, frontend, cleanupCtx, cleanupIdx,
               termSent, killSent, restartLog, nSignals, exitVia, nNotifs,
               nRestartNotifs, lastNotif, nWorkerSpawns, prompt>>

modelVars == <<word, meta, newMeta, mpc, plural>>
cliVars == <<cpc, settingsFile, settings, argv, dispatched, project, nodeOk>>

vars == <<migVars, pathVars, routeVars, watchVars, modelVars, cliVars>>

notMig == <<pathVars, routeVars, watchVars, modelVars, cliVars>>
notPath == <<migVars, routeVars, watchVars, modelVars, cliVars>>
notRoute == <<migVars, pathVars, watchVars, modelVars, cliVars>>
notWatch == <<migVars, pathVars, routeVars, modelVars, cliVars>>
notModel == <<migVars, pathVars, routeVars, watchVars, cliVars>>
notCli == <<migVars, pathVars, routeVars, watchVars, modelVars>>

\* sequences over S of length at most n
SeqsUpTo(S, n) == UNION { [1..k -> S] : k \in 0..n }

\* strings are sequences of characters; the letters of str.lower/str.upper
UpperLetters ==
    <<"A", "B", "C", "D", "E", "F", "G", "H", "I", "J", "K", "L", "M", "N", "O", "P", "Q", "R", "S", "T", "U", "V", "W", "X", "Y", "Z">>
LowerLetters ==
    <<"a", "b", "c", "d", "e", "f", "g", "h", "i", "j", "k", "l", "m", "n", "o", "p", "q", "r", "s", "t", "u", "v", "w", "x", "y", "z">>

\* str.lower(), per character and for a word
LowerChar(c) ==
    IF \E i \in 1..Len(UpperLetters) : UpperLetters[i] = c
    THEN LowerLetters[CHOOSE i \in 1..Len(UpperLetters) : UpperLetters[i] = c]
    ELSE c
Lower(w) == [i \in 1..Len(w) |-> LowerChar(w[i])]

\* str.upper() for a word
UpperChar(c) ==
    IF \E i \in 1..Len(LowerLetters) : LowerLetters[i] = c
    THEN UpperLetters[CHOOSE i \in 1..Len(LowerLetters) : LowerLetters[i] = c]
    ELSE c
Upper(w) == [i \in 1..Len(w) |-> UpperChar(w[i])]
Capitalized(w) == [i \in 1..Len(w) |-> IF i = 1 THEN UpperChar(w[i]) ELSE w[i]]

(***************************************************************************)
(* Migration manager                                                       *)
(***************************************************************************)

\* number of manager operations / CLI invocations in one behaviour
MaxCalls == 3

NoName == "None"
NoCode == "none"

\* the optional migration name given on the command line (None, "", a name)
MigrationNames == {NoName, "", "add_users"}

\* an aerich subprocess: its exit code and whether it left the migrations
\* directory behind (init-db creates it; a failing init-db may or may not)
Outcomes ==
    { [rc |-> 0, made |-> TRUE],
      [rc |-> 1, made |-> FALSE],
      [rc |-> 1, made |-> TRUE] }

\* the outcome of each aerich command an operation may run
OutcomeSets == [init : Outcomes, migrate : Outcomes, upgrade : Outcomes]

\* the migration config: the [tool.aerich] section plus app/db/db_config.py
Configured(f) == f.pyproject = "aerich" /\ f.dbConfig

\* MigrationManager._ensure_aerich_config
EnsureAerichConfig(f) ==
    LET f1 == [f EXCEPT !.dbDir = TRUE]
    IN  IF f1.pyproject = "aerich"
        THEN f1
        ELSE [f1 EXCEPT !.dbConfig = TRUE, !.dbInit = TRUE, !.pyproject = "aerich"]

\* MigrationManager._run_aerich_command: True iff the subprocess exited 0
RunAerichCommand(s, command, out) ==
    [ fs  |-> IF command[1] = "init-db" /\ out.made
              THEN [s.fs EXCEPT !.dbDir = TRUE, !.migrations = TRUE]
              ELSE s.fs,
      log |-> Append(s.log, [command |-> command,
                             configured |-> Configured(s.fs),
                             rc |-> out.rc]),
      ret |-> (out.rc = 0) ]

\* MigrationManager.init_migrations
InitMigrations(s, outs) ==
    LET s1 == [s EXCEPT !.fs = EnsureAerichConfig(s.fs)]
    IN  IF ~s1.fs.migrations
        THEN RunAerichCommand(s1, <<"init-db">>, outs.init)
        ELSE [s1 EXCEPT !.ret = TRUE]

\* the command line of `aerich migrate`
MigrateCommand(name) ==
    IF name # NoName /\ name # ""
    THEN <<"migrate", "--name", name>>
    ELSE <<"migrate">>

\* MigrationManager.create_migration
CreateMigration(s, name, outs) ==
    LET s1 == [s EXCEPT !.fs = EnsureAerichConfig(s.fs)]
        s2 == IF ~s1.fs.migrations THEN InitMigrations(s1, outs) ELSE s1
    IN  RunAerichCommand(s2, MigrateCommand(name), outs.migrate)

\* MigrationManager.apply_migrations
ApplyMigrations(s, outs) ==
    LET s1 == [s EXCEPT !.fs = EnsureAerichConfig(s.fs)]
    IN  IF ~s1.fs.migrations
        THEN [InitMigrations(s1, outs) EXCEPT !.ret = TRUE]
        ELSE RunAerichCommand(s1, <<"upgrade">>, outs.upgrade)

\* migrate_with_prep that applies whatever the create step returned
MigrateWithPrepAlwaysApplies(s, name, outs) ==
    IF ~s.fs.migrations
    THEN RunAerichCommand(s, <<"init-db">>, outs.init)
    ELSE ApplyMigrations(CreateMigration(s, name, outs), outs)

\* MigrationManager.migrate_with_prep
MigrateWithPrep(s, name, outs) ==
    IF ~s.fs.migrations
    THEN RunAerichCommand(s, <<"init-db">>, outs.init)
    ELSE LET c == CreateMigration(s, name, outs)
         IN  IF c.ret THEN ApplyMigrations(c, outs) ELSE [c EXCEPT !.ret = FALSE]

\* the state an operation starts from: the files as they are, an empty log
OpStart == [fs |-> fs, log |-> <<>>, ret |-> FALSE]

\* an operation finished with result r; code is the CLI exit code, if any
Finish(name, r, code) ==
    /\ fs' = r.fs
    /\ opName' = name
    /\ opLog' = r.log
    /\ opRet' = r.ret
    /\ exitCode' = code
    /\ calls' = calls + 1
    /\ UNCHANGED notMig

\* handle_prepmigrations / handle_migrate: 0 on success, 1 on failure
HandlerCode(success) == IF success THEN 0 ELSE 1

\* init_migrations() of the module, as create_app_directory calls it
CallInitMigrations ==
    /\ calls < MaxCalls
    /\ \E outs \in OutcomeSets :
          Finish("init_migrations", InitMigrations(OpStart, outs), NoCode)

\* create_migration(name) of the module
CallCreateMigration ==
    /\ calls < MaxCalls
    /\ \E name \in MigrationNames, outs \in OutcomeSets :
          Finish("create_migration", CreateMigration(OpStart, name, outs), NoCode)

\* MigrationManager.apply_migrations()
CallApplyMigrations ==
    /\ calls < MaxCalls
    /\ \E outs \in OutcomeSets :
          Finish("apply_migrations", ApplyMigrations(OpStart, outs), NoCode)

\* migrate(name) of the module
CallMigrate ==
    /\ calls < MaxCalls
    /\ \E name \in MigrationNames, outs \in OutcomeSets :
          Finish("migrate_with_prep", MigrateWithPrep(OpStart, name, outs), NoCode)

\* `onramp prepmigrations [name]`: main returns handle_prepmigrations(args)
HandlePrepmigrations ==
    /\ calls < MaxCalls
    /\ \E name \in MigrationNames, outs \in OutcomeSets :
          LET r == CreateMigration(OpStart, name, outs)
          IN  Finish("prepmigrations", r, HandlerCode(r.ret))

\* `onramp migrate [name]`: main returns handle_migrate(args)
HandleMigrate ==
    /\ calls < MaxCalls
    /\ \E name \in MigrationNames, outs \in OutcomeSets :
          LET r == MigrateWithPrep(OpStart, name, outs)
          IN  Finish("migrate", r, HandlerCode(r.ret))

\* a project before the migration manager was ever used
InitMigrationState ==
    /\ fs \in [ pyproject : {"absent", "plain"},
                dbDir : BOOLEAN,
                dbConfig : {FALSE},
                dbInit : {FALSE},
                migrations : {FALSE} ]
    /\ opName = "none"
    /\ opLog = <<>>
    /\ opRet = FALSE
    /\ exitCode = NoCode
    /\ calls = 0

\* the migration manager is not used
MigrationsIdle ==
    /\ fs = [pyproject |-> "absent", dbDir |-> FALSE, dbConfig |-> FALSE,
             dbInit |-> FALSE, migrations |-> FALSE]
    /\ opName = "none"
    /\ opLog = <<>>
    /\ opRet = FALSE
    /\ exitCode = NoCode
    /\ calls = 0



NextMigrations ==
    \/ CallInitMigrations
    \/ CallCreateMigration
    \/ CallApplyMigrations
    \/ CallMigrate
    \/ HandlePrepmigrations
    \/ HandleMigrate

(***************************************************************************)
(* Route path derivation (app.py, _load_route_file lines 173 and 199-209)  *)
(* File names are sequences of one-character strings.                      *)
(***************************************************************************)

\* longest module name (file name without ".py") considered
MaxStemLen == 5

Letters == {"i", "n", "d", "e", "x"}
StemChars == Letters \cup {"[", "]"}

PySuffix == <<".", "p", "y">>
IndexName == <<"i", "n", "d", "e", "x">>
ApiRoot == <<"/", "a", "p", "i">>
ApiPrefix == <<"/", "a", "p", "i", "/">>

\* the names discover_file_routes passes on: they end in ".py"
FileNames == { stem \o PySuffix : stem \in SeqsUpTo(StemChars, MaxStemLen) }

\* c in s
Contains(s, c) == \E i \in 1..Len(s) : s[i] = c

\* s.replace(old, new) for single characters
Replace(s, old, new) == [i \in 1..Len(s) |-> IF s[i] = old THEN new ELSE s[i]]

\* filename[:-3]
ModuleName(filename) ==
    IF Len(filename) <= 3 THEN <<>> ELSE SubSeq(filename, 1, Len(filename) - 3)

\* a derivation without the special case of index
RoutePathNoIndex(module_name) ==
    IF Contains(module_name, "[") /\ Contains(module_name, "]")
    THEN ApiPrefix \o Replace(Replace(module_name, "[", "{"), "]", "}")
    ELSE ApiPrefix \o module_name

\* the route path _load_route_file derives from a module name
RoutePath(module_name) ==
    LET route_path == IF module_name = IndexName
                      THEN ApiRoot
                      ELSE ApiPrefix \o module_name
    IN  IF Contains(module_name, "[") /\ Contains(module_name, "]")
        THEN ApiPrefix \o Replace(Replace(module_name, "[", "{"), "]", "}")
        ELSE route_path

\* _load_route_file up to the derivation of route_path
DerivePath ==
    /\ ~derived
    /\ routePath' = RoutePath(ModuleName(fileName))
    /\ derived' = TRUE
    /\ UNCHANGED <<fileName, notPath>>

InitPathState ==
    /\ fileName \in FileNames
    /\ routePath = <<>>
    /\ derived = FALSE

\* no path is being derived
PathsIdle ==
    /\ fileName = PySuffix
    /\ routePath = <<>>
    /\ derived = FALSE

NextPaths == DerivePath

(***************************************************************************)
(* Route discovery, handler adaptation and dispatch (app.py)               *)
(***************************************************************************)

\* most declared parameters of a handler
MaxParams == 2

\* the verbs _load_route_file looks for, in its order
MethodList == <<"GET", "POST", "PUT", "DELETE", "PATCH", "HEAD", "OPTIONS">>
Methods == { MethodList[i] : i \in 1..Len(MethodList) }

\* a module attribute named after a verb
NoAttr == [present |-> FALSE, callable |-> FALSE, marked |-> FALSE,
           coroutine |-> FALSE, params |-> 0]
NonCallableAttr == [NoAttr EXCEPT !.present = TRUE]

\* a handler function: marked by @sync, defined with async def, arity
HandlerShapes == [present : {TRUE}, callable : {TRUE}, marked : BOOLEAN,
                  coroutine : BOOLEAN, params : 0..MaxParams]

\* the verb sets the route files of the model define
VerbSets == { {}, {"GET"}, {"GET", "POST"}, {"POST", "HEAD"} }

\* the module names of the route files of the model
RouteNames == { IndexName, <<"[", "i", "d", "]">> }

\* the content of a route file: the handlers of one file share a shape; a
\* file may also hold a non-callable attribute named after a verb, or raise
\* on import
GoodModules ==
    { [raises |-> FALSE,
       attrs |-> [m \in Methods |-> IF m \in vs THEN h ELSE NoAttr]] :
          vs \in VerbSets, h \in HandlerShapes }
OddModules ==
    { [raises |-> r,
       attrs |-> [m \in Methods |-> IF m = "PUT" THEN NonCallableAttr
                                    ELSE IF m = "GET" /\ g
                                    THEN [NonCallableAttr EXCEPT !.callable = TRUE]
                                    ELSE NoAttr]] :
          r \in BOOLEAN, g \in BOOLEAN }
RouteModules == GoodModules \cup OddModules

\* the orders in which os.listdir may list some of the route files
NameLists ==
    { ns \in SeqsUpTo(RouteNames, Cardinality(RouteNames)) :
         \A i, j \in 1..Len(ns) : i # j => ns[i] # ns[j] }

\* directory listings: distinct file names, any order, any content
ApiDirs ==
    UNION { { [i \in 1..Len(ns) |->
                 [name |-> ns[i], raises |-> c[i].raises, attrs |-> c[i].attrs]] :
              c \in [1..Len(ns) -> RouteModules] } :
            ns \in NameLists }

\* what a handler may return, and the responses built from it
Value(type, keys, text, status) ==
    [type |-> type, keys |-> keys, text |-> text, status |-> status]
NoneValue == Value("none", {}, <<>>, 0)
CoroutineObject == Value("object", {}, <<"<", "coroutine", ">">>, 0)
HandlerResults ==
    { Value("dict", {"id"}, <<>>, 0),
      Value("str", {}, <<"<", "p", ">", "h", "i", "<", "/", "p", ">">>, 0),
      Value("str", {}, <<"h", "i">>, 0),
      Value("str", {}, <<" ", "<", "b", ">", " ">>, 0),
      Value("str", {}, <<"<", "b">>, 0),
      Value("str", {}, <<>>, 0),
      Value("list", {}, <<>>, 0),
      Value("int", {}, <<"7">>, 0),
      NoneValue,
      Value("response", {}, <<>>, 201),
      Value("object", {}, <<"o", "b", "j">>, 0) }

Response(kind, status, body) == [kind |-> kind, status |-> status, body |-> body]
NoResponse == Response("none", 0, NoneValue)

\* str.strip() for the blank character
RECURSIVE LStrip(_)
LStrip(s) == IF s # <<>> /\ Head(s) = " " THEN LStrip(Tail(s)) ELSE s
RECURSIVE RStrip(_)
RStrip(s) ==
    IF s # <<>> /\ s[Len(s)] = " " THEN RStrip(SubSeq(s, 1, Len(s) - 1)) ELSE s
Strip(s) == RStrip(LStrip(s))

\* hasattr(result, 'status_code'): status 0 stands for no such attribute
HasStatusCode(result) == result.status # 0

\* a conversion that looks at the type of the value before it looks for
\* status_code
ConvertResponseTypeFirst(result) ==
    IF result.type = "dict" THEN Response("json", 200, result)
    ELSE IF result.type = "str"
         THEN IF /\ Strip(result.text) # <<>>
                 /\ Head(Strip(result.text)) = "<"
                 /\ Strip(result.text)[Len(Strip(result.text))] = ">"
              THEN Response("html", 200, result)
              ELSE Response("text", 200, result)
    ELSE IF result.type \in {"list", "tuple"} THEN Response("json", 200, result)
    ELSE IF result.type \in {"int", "float", "bool"} THEN Response("json", 200, result)
    ELSE IF HasStatusCode(result) THEN Response("raw", result.status, result)
    ELSE IF result.type = "none" THEN Response("text", 200, Value("str", {}, <<>>, 0))
    ELSE Response("text", 200, Value("str", {}, result.text, 0))

\* a conversion that tests the string as returned, without strip()
ConvertResponseNoStrip(result) ==
    IF HasStatusCode(result) THEN Response("raw", result.status, result)
    ELSE IF result.type = "dict" THEN Response("json", 200, result)
    ELSE IF result.type = "str"
         THEN IF /\ result.text # <<>>
                 /\ Head(result.text) = "<"
                 /\ result.text[Len(result.text)] = ">"
              THEN Response("html", 200, result)
              ELSE Response("text", 200, result)
    ELSE IF result.type \in {"list", "tuple"} THEN Response("json", 200, result)
    ELSE IF result.type \in {"int", "float", "bool"} THEN Response("json", 200, result)
    ELSE IF result.type = "none" THEN Response("text", 200, Value("str", {}, <<>>, 0))
    ELSE Response("text", 200, Value("str", {}, result.text, 0))

\* OnRamp._convert_response
ConvertResponse(result) ==
    IF HasStatusCode(result) THEN Response("raw", result.status, result)
    ELSE IF result.type = "dict" THEN Response("json", 200, result)
    ELSE IF result.type = "str"
         THEN IF /\ Strip(result.text) # <<>>
                 /\ Head(Strip(result.text)) = "<"
                 /\ Strip(result.text)[Len(Strip(result.text))] = ">"
              THEN Response("html", 200, result)
              ELSE Response("text", 200, result)
    ELSE IF result.type \in {"list", "tuple"} THEN Response("json", 200, result)
    ELSE IF result.type \in {"int", "float", "bool"} THEN Response("json", 200, result)
    ELSE IF result.type = "none" THEN Response("text", 200, Value("str", {}, <<>>, 0))
    ELSE Response("text", 200, Value("str", {}, result.text, 0))

\* the runtime types _convert_response tells apart; "response" is a
\* framework response, "object" any other class
ValueTypes == {"dict", "str", "list", "tuple", "int", "float", "bool", "none",
               "response", "object"}

\* strings, and string forms of values
Texts == { <<>>, <<"h", "i">>, <<"<", "b", ">">>, <<" ", "<", "b", ">", " ">> }

\* the values a handler may hand to _convert_response: of any type, with or
\* without a status_code attribute (a response always has one; None and a
\* bool cannot have one, a subclass of the other types can)
ReturnValues ==
    { v \in [type : ValueTypes, keys : {{}, {"id"}}, text : Texts,
             status : {0, 201}] :
         /\ v.keys # {} => v.type = "dict"
         /\ v.type = "none" => v = NoneValue
         /\ v.type = "bool" => v.status = 0
         /\ v.type = "response" => v.status # 0 }

\* a wrapper that passes the path parameters to every handler with parameters
HandlerArgsAlwaysParams(param_count) ==
    IF param_count = 0 THEN <<>> ELSE <<"request", "params">>

\* the arguments a wrapper of _make_async_handler passes to handler_func
HandlerArgs(param_count) ==
    IF param_count = 0 THEN <<>>
    ELSE IF param_count = 1 THEN <<"request">>
    ELSE <<"request", "params">>

\* an adapter that looks for async def before it looks for the marker
MakeAsyncHandlerAsyncFirst(handler_func) ==
    IF handler_func.coroutine
    THEN [wrapper |-> "async_wrapper", runs |-> "loop",
          args |-> HandlerArgs(handler_func.params)]
    ELSE IF handler_func.marked
    THEN [wrapper |-> "sync_wrapper", runs |-> "executor",
          args |-> HandlerArgs(handler_func.params)]
    ELSE [wrapper |-> "default_async_wrapper", runs |-> "executor",
          args |-> HandlerArgs(handler_func.params)]

\* the wrapper _make_async_handler builds for handler_func
MakeAsyncHandler(handler_func) ==
    IF handler_func.marked
    THEN [wrapper |-> "sync_wrapper", runs |-> "executor",
          args |-> HandlerArgs(handler_func.params)]
    ELSE IF handler_func.coroutine
    THEN [wrapper |-> "async_wrapper", runs |-> "loop",
          args |-> HandlerArgs(handler_func.params)]
    ELSE [wrapper |-> "default_async_wrapper", runs |-> "executor",
          args |-> HandlerArgs(handler_func.params)]

NoRequest == [route |-> 0, method |-> "none"]

NoCall == [wrapper |-> "none", runs |-> "none", args |-> <<>>]

\* the unique module name of a route file in sys.modules
UniqueModuleName(file) == <<"api">> \o file.name

\* a search that takes every attribute named after a verb
SupportedMethodsAnyAttr(file) ==
    SelectSeq(MethodList, LAMBDA m : file.attrs[m].present)

\* the verbs for which the module has a callable attribute, in loop order
SupportedMethods(file) ==
    SelectSeq(MethodList,
              LAMBDA m : file.attrs[m].present /\ file.attrs[m].callable)

SeqToSet(s) == { s[i] : i \in 1..Len(s) }

\* Route(route_path, unified_handler, methods=supported_methods): the route
\* answers the given methods, and HEAD wherever it answers GET
RouteMethods(supported_methods) ==
    SeqToSet(supported_methods)
        \cup (IF "GET" \in SeqToSet(supported_methods) THEN {"HEAD"} ELSE {})

\* the route _load_route_file registers for a file (when it registers one)
MakeRoute(file) ==
    [ path     |-> RoutePath(file.name),
      supported |-> SupportedMethods(file),
      methods  |-> RouteMethods(SupportedMethods(file)),
      handlers |-> [m \in SeqToSet(SupportedMethods(file)) |->
                       MakeAsyncHandler(file.attrs[m])],
      funcs    |-> [m \in SeqToSet(SupportedMethods(file)) |-> file.attrs[m]] ]

\* self.app_dir and an entry sys.path always has
AppDir == "app"
SitePackages == "site-packages"

\* sys.path before discovery: without the app directory, or already with it
SysPaths == { <<SitePackages>>, <<AppDir, SitePackages>> }

\* if self.app_dir not in sys.path: sys.path.insert(0, self.app_dir)
InsertAppDir(path) ==
    IF AppDir \in SeqToSet(path) THEN path ELSE <<AppDir>> \o path

\* a discovery that puts the app directory on sys.path before it looks for
\* the api directory
DiscoverFileRoutesInsertsFirst ==
    /\ nextFile = 0
    /\ sysPath' = InsertAppDir(sysPath)
    /\ nextFile' = 1
    /\ UNCHANGED <<apiDirExists, apiFiles, routes, sysModules, lastRequest,
                   lastCall, lastResult, lastResponse>>
    /\ UNCHANGED notRoute

\* OnRamp.discover_file_routes up to its loop: without an api directory it
\* prints and returns; otherwise the app directory goes on sys.path and the
\* listing is walked
DiscoverFileRoutes ==
    /\ nextFile = 0
    /\ IF ~apiDirExists
       THEN UNCHANGED sysPath
       ELSE sysPath' = InsertAppDir(sysPath)
    /\ nextFile' = 1
    /\ UNCHANGED <<apiDirExists, apiFiles, routes, sysModules, lastRequest,
                   lastCall, lastResult, lastResponse>>
    /\ UNCHANGED notRoute

\* a loader that leaves the module of a failed import in sys.modules
LoadRouteFileKeepsModule ==
    /\ nextFile \in 1..Len(apiFiles)
    /\ LET file == apiFiles[nextFile]
       IN  /\ sysModules' = sysModules \cup {UniqueModuleName(file)}
           /\ IF ~file.raises /\ SupportedMethods(file) # <<>>
              THEN routes' = Append(routes, MakeRoute(file))
              ELSE UNCHANGED routes
    /\ nextFile' = nextFile + 1
    /\ UNCHANGED <<apiDirExists, sysPath, apiFiles, lastRequest, lastCall,
                   lastResult, lastResponse>>
    /\ UNCHANGED notRoute

\* OnRamp._load_route_file for the next file of the listing
LoadRouteFile ==
    /\ nextFile \in 1..Len(apiFiles)
    /\ LET file == apiFiles[nextFile]
       IN  IF file.raises
           THEN /\ sysModules' = sysModules \ {UniqueModuleName(file)}
                /\ UNCHANGED routes
           ELSE /\ sysModules' = sysModules \cup {UniqueModuleName(file)}
                /\ IF SupportedMethods(file) # <<>>
                   THEN routes' = Append(routes, MakeRoute(file))
                   ELSE UNCHANGED routes
    /\ nextFile' = nextFile + 1
    /\ UNCHANGED <<apiDirExists, sysPath, apiFiles, lastRequest, lastCall,
                   lastResult, lastResponse>>
    /\ UNCHANGED notRoute

\* the value a wrapper gets from handler_func: the executor of sync_wrapper
\* does not await, so an async def marked @sync hands back its coroutine
WrapperResult(handler_func, result) ==
    IF handler_func.marked /\ handler_func.coroutine
    THEN CoroutineObject ELSE result

\* unified_handler of a route, for a request with the given method; result is
\* what the user's handler returns
UnifiedHandler(route, method, result) ==
    IF method \in DOMAIN route.handlers
    THEN [call |-> route.handlers[method],
          result |-> WrapperResult(route.funcs[method], result),
          response |-> ConvertResponse(
                           WrapperResult(route.funcs[method], result))]
    ELSE [call |-> NoCall,
          result |-> NoneValue,
          response |-> Response("json", 405,
                                Value("dict", {"error"},
                                      <<"Method", method, "not allowed">>, 0))]

\* the route as registered: a method outside its methods is answered by the
\* router with a plain-text 405, the others reach unified_handler
RouteHandle(route, method, result) ==
    IF method \notin route.methods
    THEN [call |-> NoCall,
          result |-> NoneValue,
          response |-> Response("text", 405,
                                Value("str", {}, <<"Method Not Allowed">>, 0))]
    ELSE UnifiedHandler(route, method, result)

\* a request for the path of a registered route, once create_app returned
Request ==
    /\ nextFile > Len(apiFiles)
    /\ lastRequest = NoRequest
    /\ \E i \in 1..Len(routes), method \in Methods, result \in HandlerResults :
          LET out == RouteHandle(routes[i], method, result)
          IN  /\ lastRequest' = [route |-> i, method |-> method]
              /\ lastCall' = out.call
              /\ lastResult' = out.result
              /\ lastResponse' = out.response
    /\ UNCHANGED <<apiDirExists, sysPath, apiFiles, nextFile, routes, sysModules>>
    /\ UNCHANGED notRoute

\* the response was sent; the application waits for the next request
SendResponse ==
    /\ lastRequest # NoRequest
    /\ lastRequest' = NoRequest
    /\ lastCall' = NoCall
    /\ lastResult' = NoneValue
    /\ lastResponse' = NoResponse
    /\ UNCHANGED <<apiDirExists, sysPath, apiFiles, nextFile, routes, sysModules>>
    /\ UNCHANGED notRoute

\* self._convert_response(result) on its own
ConvertValue ==
    /\ lastRequest = NoRequest
    /\ lastResponse = NoResponse
    /\ lastResponse' = ConvertResponse(lastResult)
    /\ UNCHANGED <<apiDirExists, sysPath, apiFiles, nextFile, routes,
                   sysModules, lastRequest, lastCall, lastResult>>
    /\ UNCHANGED notRoute

\* OnRamp.__init__ and the api directory as found on disk: with listing
\* apiFiles, or missing
InitRouteState ==
    /\ apiDirExists \in BOOLEAN
    /\ sysPath \in SysPaths
    /\ apiFiles \in (IF apiDirExists THEN ApiDirs ELSE {<<>>})
    /\ nextFile = 0
    /\ routes = <<>>
    /\ sysModules = {}
    /\ lastRequest = NoRequest
    /\ lastCall = NoCall
    /\ lastResult = NoneValue
    /\ lastResponse = NoResponse

\* no application is created
RoutesIdle ==
    /\ apiDirExists = FALSE
    /\ sysPath = <<SitePackages>>
    /\ apiFiles = <<>>
    /\ nextFile = 1
    /\ routes = <<>>
    /\ sysModules = {}
    /\ lastRequest = NoRequest
    /\ lastCall = NoCall
    /\ lastResult = NoneValue
    /\ lastResponse = NoResponse

NextRoutes == DiscoverFileRoutes \/ LoadRouteFile \/ Request \/ SendResponse

(***************************************************************************)
(* Process orchestrator (cli.py): run_command_logic, run_uvicorn_with_watch,*)
(* _start_uvicorn_worker, cleanup_processes, signal_handler.               *)
(* The main thread advances one call at a time; a signal may be delivered  *)
(* between any two of its steps, and a child may exit at any moment.       *)
(***************************************************************************)

\* change notifications delivered in one behaviour
MaxNotifs == 2
\* interrupt signals delivered in one behaviour
MaxSignals == 1
\* the ports above the requested one that may be busy
MaxPort == 1

\* the frontend, the first worker and one worker per notification
MaxProcs == MaxNotifs + 2
Pids == 1..MaxProcs
NoPid == 0

\* ports are counted from the requested one (--port, default 8000)
RequestedPort == 0
Ports == RequestedPort..(RequestedPort + MaxPort)

\* ignore_patterns of run_uvicorn_with_watch
IgnorePatterns ==
    { <<".sqlite3-shm">>, <<".sqlite3-wal">>, <<".sqlite3-journal">>,
      <<".pyc">>, <<".pyo">>, <<"__pycache__">>, <<".DS_Store">>,
      <<"Thumbs.db">>, <<".tmp">>, <<".log">> }

\* paths under the watched directory, cut into the pieces that matter
WatchedPaths ==
    { <<"/", "app", "/", "api", "/", "index", ".py">>,
      <<"/", "app", "/", "db", "/", "db", ".sqlite3-wal">>,
      <<"/", "app", "/", "__pycache__", "/", "index", ".pyc">>,
      <<"/", "app", "/", ".log", "/", "main", ".py">> }

\* a notification of watchfiles: a non-empty set of changed paths
ChangeSets == SUBSET WatchedPaths \ {{}}

\* pattern in file_path_str
IsInfix(pattern, path) ==
    \E i \in 0..(Len(path) - Len(pattern)) :
        \A k \in 1..Len(pattern) : path[i + k] = pattern[k]

\* a test that looks for the patterns in the file name and its extension
\* only
ShouldIgnoreChangeByName(file_path) ==
    \E pattern \in IgnorePatterns :
        IsInfix(pattern, SubSeq(file_path, Len(file_path) - 1, Len(file_path)))

\* should_ignore_change
ShouldIgnoreChange(file_path) ==
    \E pattern \in IgnorePatterns : IsInfix(pattern, file_path)

\* a filter that drops the whole notification when one path is ignored
FilteredChangesAllOrNothing(changes) ==
    IF \E c \in changes : ShouldIgnoreChange(c) THEN {} ELSE changes

\* filtered_changes of the watch loop
FilteredChanges(changes) == { c \in changes : ~ShouldIgnoreChange(c) }

\* is_port_in_use
IsPortInUse(p) == p \in busyPorts

\* a search that takes the first candidate without looking
FindNextAvailablePortNoCheck(starting_port) == starting_port

\* find_next_available_port; no port above Ports is busy
RECURSIVE FindNextAvailablePort(_)
FindNextAvailablePort(starting_port) ==
    IF IsPortInUse(starting_port)
    THEN FindNextAvailablePort(starting_port + 1)
    ELSE starting_port

\* process.poll() is None
Alive(p) == procState[p] \in {"running", "killed"}

\* the pid subprocess.Popen gives the next child
NewPid == CHOOSE p \in Pids : procState[p] = "unborn" /\ \A q \in Pids : q < p => procState[q] # "unborn"
CanSpawn == \E p \in Pids : procState[p] = "unborn"

\* process.terminate(): SIGTERM to a child that has not exited
Terminate(p) == termSent' = (IF Alive(p) THEN termSent \cup {p} ELSE termSent)

\* process.kill(): SIGKILL to a child that has not exited
Kill(p) ==
    /\ killSent' = (IF Alive(p) THEN killSent \cup {p} ELSE killSent)
    /\ procState' = (IF Alive(p) THEN [procState EXCEPT ![p] = "killed"] ELSE procState)

\* the children whose calls raise: none, or one of the first two started
\* (the frontend, the first worker or its replacement)
FaultSets == {{}} \cup { {p} : p \in 1..2 }

settingVars == <<buildDir, backend, subcommand, busyPorts, faulty>>
countVars == <<nNotifs, nRestartNotifs, lastNotif, nWorkerSpawns, prompt>>
historyVars == <<countVars, attempted, lastChanges>>

\* main: the handlers are installed and `run` calls run_command_logic
RunCommandLogic ==
    /\ wpc = "start"
    /\ subcommand = "run"
    /\ wpc' = IF ~buildDir THEN "port_check"
              ELSE IF ~backend THEN "npm_popen"
              ELSE "terminal_popen"
    /\ UNCHANGED <<procState, spawned, proc, popened, frontend, port, cleanupCtx,
                   cleanupIdx, termSent, killSent, restartLog, nSignals, exitVia,
                   settingVars, historyVars, notWatch>>

\* main: `web` and `run --web-only` call run_web(with_backend=False), which
\* returns at once without a build directory; main returns and the atexit
\* hook runs cleanup_processes
RunWeb ==
    /\ wpc = "start"
    /\ subcommand = "web"
    /\ IF ~buildDir
       THEN /\ wpc' = "cleanup"
            /\ cleanupCtx' = "atexit"
            /\ cleanupIdx' = 1
       ELSE /\ wpc' = "web_run"
            /\ UNCHANGED <<cleanupCtx, cleanupIdx>>
    /\ UNCHANGED <<procState, spawned, proc, popened, frontend, port, termSent,
                   killSent, restartLog, nSignals, exitVia, settingVars,
                   historyVars, notWatch>>

\* run_web: subprocess.run(npm run start:web) starts the bundler and waits
\* for it, or raises when npm is missing and main ends with the exception
WebRun ==
    /\ wpc = "web_run"
    /\ \/ /\ CanSpawn
          /\ procState' = [procState EXCEPT ![NewPid] = "running"]
          /\ frontend' = NewPid
          /\ wpc' = "web_wait"
          /\ UNCHANGED <<cleanupCtx, cleanupIdx>>
       \/ /\ wpc' = "cleanup"
          /\ cleanupCtx' = "atexit"
          /\ cleanupIdx' = 1
          /\ UNCHANGED <<procState, frontend>>
    /\ UNCHANGED <<spawned, proc, popened, port, termSent, killSent, restartLog,
                   nSignals, exitVia, settingVars, historyVars, notWatch>>

\* run_web: subprocess.run returns once the bundler exited
WebWait ==
    /\ wpc = "web_wait"
    /\ procState[frontend] = "exited"
    /\ wpc' = "cleanup"
    /\ cleanupCtx' = "atexit"
    /\ cleanupIdx' = 1
    /\ UNCHANGED <<procState, spawned, proc, popened, frontend, port, termSent,
                   killSent, restartLog, nSignals, exitVia, settingVars,
                   historyVars, notWatch>>

\* main: `ios` calls run_ios, which returns at once without a build
\* directory and off macOS (or when the user gives up at an Xcode prompt);
\* otherwise it runs its tools one after the other
RunIos ==
    /\ wpc = "start"
    /\ subcommand = "ios"
    /\ \/ /\ wpc' = "cleanup"
          /\ cleanupCtx' = "atexit"
          /\ cleanupIdx' = 1
       \/ /\ buildDir
          /\ wpc' = "tool_run"
          /\ UNCHANGED <<cleanupCtx, cleanupIdx>>
    /\ UNCHANGED <<procState, spawned, proc, popened, frontend, port, termSent,
                   killSent, restartLog, nSignals, exitVia, settingVars,
                   historyVars, notWatch>>

\* main: `android` calls run_android, which returns at once without a build
\* directory; otherwise it runs its tools, starting with node --version
RunAndroid ==
    /\ wpc = "start"
    /\ subcommand = "android"
    /\ IF ~buildDir
       THEN /\ wpc' = "cleanup"
            /\ cleanupCtx' = "atexit"
            /\ cleanupIdx' = 1
       ELSE /\ wpc' = "tool_run"
            /\ UNCHANGED <<cleanupCtx, cleanupIdx>>
    /\ UNCHANGED <<procState, spawned, proc, popened, frontend, port, termSent,
                   killSent, restartLog, nSignals, exitVia, settingVars,
                   historyVars, notWatch>>

\* run_ios, run_android: subprocess.run of the next tool (node, xcodebuild,
\* xcrun, npm, npx ...), which starts a child and waits for it; or the
\* function returns (a check failed, the user declined, the tool is missing)
ToolRun ==
    /\ wpc = "tool_run"
    /\ \/ /\ CanSpawn
          /\ procState' = [procState EXCEPT ![NewPid] = "running"]
          /\ frontend' = NewPid
          /\ wpc' = "tool_wait"
          /\ UNCHANGED <<cleanupCtx, cleanupIdx>>
       \/ /\ wpc' = "cleanup"
          /\ cleanupCtx' = "atexit"
          /\ cleanupIdx' = 1
          /\ UNCHANGED <<procState, frontend>>
    /\ UNCHANGED <<spawned, proc, popened, port, termSent, killSent, restartLog,
                   nSignals, exitVia, settingVars, historyVars, notWatch>>

\* subprocess.run returns once the tool exited: on to the next tool, or
\* the function returns
ToolWait ==
    /\ wpc = "tool_wait"
    /\ procState[frontend] = "exited"
    /\ \/ /\ wpc' = "tool_run"
          /\ UNCHANGED <<cleanupCtx, cleanupIdx>>
       \/ /\ wpc' = "cleanup"
          /\ cleanupCtx' = "atexit"
          /\ cleanupIdx' = 1
    /\ UNCHANGED <<procState, spawned, proc, popened, frontend, port, termSent,
                   killSent, restartLog, nSignals, exitVia, settingVars,
                   historyVars, notWatch>>

\* run_command_logic, backend disabled: Popen(npm run start:web), which
\* raises when npm is missing ("Error checking settings ... backend only")
NpmPopen ==
    /\ wpc = "npm_popen"
    /\ \/ /\ CanSpawn
          /\ procState' = [procState EXCEPT ![NewPid] = "running"]
          /\ popened' = NewPid
          /\ wpc' = "npm_append"
       \/ /\ wpc' = "port_check"
          /\ UNCHANGED <<procState, popened>>
    /\ UNCHANGED <<spawned, proc, frontend, port, cleanupCtx, cleanupIdx,
                   termSent, killSent, restartLog, nSignals, exitVia,
                   settingVars, historyVars, notWatch>>

\* spawned_processes.append(p) for the bundler, then p.wait()
NpmAppend ==
    /\ wpc = "npm_append"
    /\ spawned' = Append(spawned, popened)
    /\ frontend' = popened
    /\ popened' = NoPid
    /\ wpc' = "npm_wait"
    /\ UNCHANGED <<procState, proc, port, cleanupCtx, cleanupIdx, termSent,
                   killSent, restartLog, nSignals, exitVia, settingVars,
                   historyVars, notWatch>>

\* p.wait() returns once the bundler exited; main returns and the atexit
\* hook runs cleanup_processes
NpmWait ==
    /\ wpc = "npm_wait"
    /\ procState[frontend] = "exited"
    /\ wpc' = "cleanup"
    /\ cleanupCtx' = "atexit"
    /\ cleanupIdx' = 1
    /\ UNCHANGED <<procState, spawned, proc, popened, frontend, port, termSent,
                   killSent, restartLog, nSignals, exitVia, settingVars,
                   historyVars, notWatch>>

\* open_new_terminal_and_run_web: Popen of a terminal, or none was found
TerminalPopen ==
    /\ wpc = "terminal_popen"
    /\ \/ /\ CanSpawn
          /\ procState' = [procState EXCEPT ![NewPid] = "running"]
          /\ popened' = NewPid
          /\ wpc' = "terminal_append"
       \/ /\ wpc' = "port_check"
          /\ UNCHANGED <<procState, popened>>
    /\ UNCHANGED <<spawned, proc, frontend, port, cleanupCtx, cleanupIdx,
                   termSent, killSent, restartLog, nSignals, exitVia,
                   settingVars, historyVars, notWatch>>

\* spawned_processes.append(p) for the terminal, then run_uvicorn_with_watch
TerminalAppend ==
    /\ wpc = "terminal_append"
    /\ spawned' = Append(spawned, popened)
    /\ frontend' = popened
    /\ popened' = NoPid
    /\ wpc' = "port_check"
    /\ UNCHANGED <<procState, proc, port, cleanupCtx, cleanupIdx, termSent,
                   killSent, restartLog, nSignals, exitVia, settingVars,
                   historyVars, notWatch>>

\* what the user may type at the port prompt
Responses == { <<"y">>, <<" ", "Y", " ">>, <<"n">>, <<"y", "e", "s">>, <<>> }

\* input(...).strip().lower() == 'y'
Accepts(resp) == Lower(Strip(resp)) = <<"y">>

\* run_uvicorn_with_watch, the port prompt
PortCheck ==
    /\ wpc = "port_check"
    /\ IF IsPortInUse(port)
       THEN \E resp \in Responses :
               IF Accepts(resp)
               THEN /\ port' = FindNextAvailablePort(port + 1)
                    /\ prompt' = "accepted"
                    /\ wpc' = "worker_popen"
               ELSE /\ wpc' = "finally"
                    /\ prompt' = "declined"
                    /\ UNCHANGED port
       ELSE /\ wpc' = "worker_popen"
            /\ UNCHANGED <<port, prompt>>
    /\ UNCHANGED <<procState, spawned, proc, popened, frontend, cleanupCtx,
                   cleanupIdx, termSent, killSent, restartLog, nSignals, exitVia,
                   settingVars, nNotifs, nRestartNotifs, lastNotif,
                   nWorkerSpawns, attempted, lastChanges, notWatch>>

\* _start_uvicorn_worker: p = subprocess.Popen(...)
WorkerPopen ==
    /\ wpc = "worker_popen"
    /\ CanSpawn
    /\ procState' = [procState EXCEPT ![NewPid] = "running"]
    /\ popened' = NewPid
    /\ nWorkerSpawns' = nWorkerSpawns + 1
    /\ restartLog' = Append(restartLog, "spawn")
    /\ wpc' = "worker_append"
    /\ UNCHANGED <<spawned, proc, frontend, port, cleanupCtx, cleanupIdx,
                   termSent, killSent, nSignals, exitVia, settingVars,
                   nNotifs, nRestartNotifs, lastNotif, prompt, attempted,
                   lastChanges, notWatch>>

\* _start_uvicorn_worker: spawned_processes.append(p); proc = p
WorkerAppend ==
    /\ wpc = "worker_append"
    /\ spawned' = Append(spawned, popened)
    /\ proc' = popened
    /\ popened' = NoPid
    /\ wpc' = "watching"
    /\ lastChanges' = {}
    /\ UNCHANGED <<procState, frontend, port, cleanupCtx, cleanupIdx, termSent,
                   killSent, restartLog, nSignals, exitVia, settingVars,
                   countVars, attempted, notWatch>>

\* for changes in watch(APP_DIR): one notification, filtered
NotifyChanges ==
    /\ wpc = "watching"
    /\ nNotifs < MaxNotifs
    /\ \E notified \in ChangeSets :
          /\ lastChanges' = notified
          /\ nNotifs' = nNotifs + 1
          /\ lastNotif' = (IF \A c \in notified : ShouldIgnoreChange(c)
                           THEN "ignored" ELSE "restart")
          /\ nRestartNotifs' = (IF \A c \in notified : ShouldIgnoreChange(c)
                                THEN nRestartNotifs ELSE nRestartNotifs + 1)
          /\ IF FilteredChanges(notified) = {}
             THEN UNCHANGED <<wpc, restartLog>>
             ELSE /\ wpc' = "restart_stop"
                  /\ restartLog' = <<>>
    /\ UNCHANGED <<procState, spawned, proc, popened, frontend, port, cleanupCtx,
                   cleanupIdx, termSent, killSent, nSignals, exitVia,
                   settingVars, nWorkerSpawns, prompt, attempted, notWatch>>

\* restart: if proc and proc.poll() is None: proc.terminate(); when poll or
\* terminate raises, the error is printed and the replacement is started
RestartStop ==
    /\ wpc = "restart_stop"
    /\ \/ /\ proc # NoPid /\ Alive(proc)
          /\ Terminate(proc)
          /\ restartLog' = Append(restartLog, "terminate")
          /\ wpc' = "restart_wait"
       \/ /\ ~(proc # NoPid /\ Alive(proc))
          /\ wpc' = "worker_popen"
          /\ UNCHANGED <<termSent, restartLog>>
       \/ /\ proc \in faulty
          /\ restartLog' = Append(restartLog, "error")
          /\ wpc' = "worker_popen"
          /\ UNCHANGED termSent
    /\ UNCHANGED <<procState, spawned, proc, popened, frontend, port, cleanupCtx,
                   cleanupIdx, killSent, nSignals, exitVia, settingVars,
                   historyVars, notWatch>>

\* restart: proc.wait(timeout=3) returns, the worker exited
RestartWaitDone ==
    /\ wpc = "restart_wait"
    /\ procState[proc] = "exited"
    /\ restartLog' = Append(restartLog, "wait_exit")
    /\ wpc' = "worker_popen"
    /\ UNCHANGED <<procState, spawned, proc, popened, frontend, port, cleanupCtx,
                   cleanupIdx, termSent, killSent, nSignals, exitVia,
                   settingVars, historyVars, notWatch>>

\* a restart that starts the replacement right after the timeout
RestartWaitTimeoutNoKill ==
    /\ wpc = "restart_wait"
    /\ procState[proc] # "exited"
    /\ restartLog' = Append(restartLog, "wait_timeout")
    /\ wpc' = "worker_popen"
    /\ UNCHANGED <<procState, spawned, proc, popened, frontend, port, cleanupCtx,
                   cleanupIdx, termSent, killSent, nSignals, exitVia,
                   settingVars, historyVars, notWatch>>

\* restart: proc.wait(timeout=3) raises TimeoutExpired; when it raises
\* something else, the error is printed and the replacement is started
RestartWaitTimeout ==
    /\ wpc = "restart_wait"
    /\ \/ /\ procState[proc] # "exited"
          /\ restartLog' = Append(restartLog, "wait_timeout")
          /\ wpc' = "restart_kill"
       \/ /\ proc \in faulty
          /\ restartLog' = Append(restartLog, "error")
          /\ wpc' = "worker_popen"
    /\ UNCHANGED <<procState, spawned, proc, popened, frontend, port, cleanupCtx,
                   cleanupIdx, termSent, killSent, nSignals, exitVia,
                   settingVars, historyVars, notWatch>>

\* restart: proc.kill(), which may raise
RestartKill ==
    /\ wpc = "restart_kill"
    /\ \/ /\ Kill(proc)
          /\ restartLog' = Append(restartLog, "kill")
       \/ /\ proc \in faulty
          /\ restartLog' = Append(restartLog, "error")
          /\ UNCHANGED <<killSent, procState>>
    /\ wpc' = "worker_popen"
    /\ UNCHANGED <<spawned, proc, popened, frontend, port, cleanupCtx,
                   cleanupIdx, termSent, nSignals, exitVia, settingVars,
                   historyVars, notWatch>>

\* the watch loop ends (the watcher stops or raises): on to the finally block
WatchStops ==
    /\ wpc = "watching"
    /\ wpc' = "finally"
    /\ lastChanges' = {}
    /\ UNCHANGED <<procState, spawned, proc, popened, frontend, port, cleanupCtx,
                   cleanupIdx, termSent, killSent, restartLog, nSignals, exitVia,
                   settingVars, countVars, attempted, notWatch>>

\* finally: if proc and proc.poll() is None: proc.terminate(); otherwise,
\* or when poll or terminate raises, straight to cleanup_processes()
FinallyStop ==
    /\ wpc = "finally"
    /\ \/ /\ proc # NoPid /\ Alive(proc)
          /\ Terminate(proc)
          /\ wpc' = "finally_wait"
          /\ UNCHANGED <<cleanupCtx, cleanupIdx>>
       \/ /\ ~(proc # NoPid /\ Alive(proc)) \/ proc \in faulty
          /\ wpc' = "cleanup"
          /\ cleanupCtx' = "finally"
          /\ cleanupIdx' = 1
          /\ UNCHANGED termSent
    /\ UNCHANGED <<procState, spawned, proc, popened, frontend, port, killSent,
                   restartLog, nSignals, exitVia, settingVars, historyVars,
                   notWatch>>

\* finally: proc.wait(timeout=3) returns; cleanup_processes() is next
FinallyWaitDone ==
    /\ wpc = "finally_wait"
    /\ procState[proc] = "exited"
    /\ wpc' = "cleanup"
    /\ cleanupCtx' = "finally"
    /\ cleanupIdx' = 1
    /\ UNCHANGED <<procState, spawned, proc, popened, frontend, port, termSent,
                   killSent, restartLog, nSignals, exitVia, settingVars,
                   historyVars, notWatch>>

\* finally: proc.wait(timeout=3) raises TimeoutExpired: proc.kill(), then
\* cleanup_processes(); an exception of wait or kill is swallowed
FinallyWaitTimeout ==
    /\ wpc = "finally_wait"
    /\ \/ /\ procState[proc] # "exited"
          /\ Kill(proc)
       \/ /\ proc \in faulty
          /\ UNCHANGED <<killSent, procState>>
    /\ wpc' = "cleanup"
    /\ cleanupCtx' = "finally"
    /\ cleanupIdx' = 1
    /\ UNCHANGED <<spawned, proc, popened, frontend, port, termSent, restartLog,
                   nSignals, exitVia, settingVars, historyVars, notWatch>>

\* a cleanup that stops at the first process whose call raises
CleanupStopGivesUp ==
    /\ wpc = "cleanup"
    /\ cleanupIdx <= Len(spawned)
    /\ attempted' = (IF cleanupIdx = 1 THEN {} ELSE attempted)
                        \cup {spawned[cleanupIdx]}
    /\ \/ /\ Alive(spawned[cleanupIdx])
          /\ Terminate(spawned[cleanupIdx])
          /\ wpc' = "cleanup_wait"
          /\ UNCHANGED cleanupIdx
       \/ /\ ~Alive(spawned[cleanupIdx])
          /\ cleanupIdx' = cleanupIdx + 1
          /\ UNCHANGED <<wpc, termSent>>
       \/ /\ spawned[cleanupIdx] \in faulty
          /\ cleanupIdx' = Len(spawned) + 1
          /\ UNCHANGED <<wpc, termSent>>
    /\ UNCHANGED <<procState, spawned, proc, popened, frontend, port, cleanupCtx,
                   killSent, restartLog, nSignals, exitVia, settingVars,
                   countVars, lastChanges, notWatch>>

\* cleanup_processes: the next process of the list; poll and terminate; an
\* exception of either is swallowed and the loop goes on
CleanupStop ==
    /\ wpc = "cleanup"
    /\ cleanupIdx <= Len(spawned)
    /\ attempted' = (IF cleanupIdx = 1 THEN {} ELSE attempted)
                        \cup {spawned[cleanupIdx]}
    /\ \/ /\ Alive(spawned[cleanupIdx])
          /\ Terminate(spawned[cleanupIdx])
          /\ wpc' = "cleanup_wait"
          /\ UNCHANGED cleanupIdx
       \/ /\ ~Alive(spawned[cleanupIdx]) \/ spawned[cleanupIdx] \in faulty
          /\ cleanupIdx' = cleanupIdx + 1
          /\ UNCHANGED <<wpc, termSent>>
    /\ UNCHANGED <<procState, spawned, proc, popened, frontend, port, cleanupCtx,
                   killSent, restartLog, nSignals, exitVia, settingVars,
                   countVars, lastChanges, notWatch>>

\* cleanup_processes: process.wait(timeout=3) returns
CleanupWaitDone ==
    /\ wpc = "cleanup_wait"
    /\ procState[spawned[cleanupIdx]] = "exited"
    /\ cleanupIdx' = cleanupIdx + 1
    /\ wpc' = "cleanup"
    /\ UNCHANGED <<procState, spawned, proc, popened, frontend, port, cleanupCtx,
                   termSent, killSent, restartLog, nSignals, exitVia,
                   settingVars, historyVars, notWatch>>

\* a cleanup that gives up on a child after the timeout
CleanupWaitTimeoutNoKill ==
    /\ wpc = "cleanup_wait"
    /\ procState[spawned[cleanupIdx]] # "exited"
    /\ cleanupIdx' = cleanupIdx + 1
    /\ wpc' = "cleanup"
    /\ UNCHANGED <<procState, spawned, proc, popened, frontend, port, cleanupCtx,
                   termSent, killSent, restartLog, nSignals, exitVia,
                   settingVars, historyVars, notWatch>>

\* cleanup_processes: process.wait(timeout=3) raises TimeoutExpired:
\* process.kill(); an exception of wait or kill is swallowed
CleanupWaitTimeout ==
    /\ wpc = "cleanup_wait"
    /\ \/ /\ procState[spawned[cleanupIdx]] # "exited"
          /\ Kill(spawned[cleanupIdx])
       \/ /\ spawned[cleanupIdx] \in faulty
          /\ UNCHANGED <<killSent, procState>>
    /\ cleanupIdx' = cleanupIdx + 1
    /\ wpc' = "cleanup"
    /\ UNCHANGED <<spawned, proc, popened, frontend, port, cleanupCtx, termSent,
                   restartLog, nSignals, exitVia, settingVars, historyVars,
                   notWatch>>

\* cleanup_processes: spawned_processes.clear(), and what follows the call:
\* after the finally block main returns and the atexit hook cleans up again;
\* the signal handler calls os._exit(0); after the atexit hook the process ends
CleanupClear ==
    /\ wpc = "cleanup"
    /\ cleanupIdx > Len(spawned)
    /\ spawned' = <<>>
    /\ IF cleanupCtx = "finally"
       THEN /\ wpc' = "cleanup"
            /\ cleanupCtx' = "atexit"
            /\ cleanupIdx' = 1
            /\ UNCHANGED exitVia
       ELSE /\ wpc' = "exited"
            /\ exitVia' = cleanupCtx
            /\ UNCHANGED <<cleanupCtx, cleanupIdx>>
    /\ UNCHANGED <<procState, proc, popened, frontend, port, termSent, killSent,
                   restartLog, nSignals, settingVars, historyVars, notWatch>>

\* SIGINT or SIGTERM: signal_handler runs cleanup_processes and os._exit(0);
\* the interrupted code never resumes
SignalHandler ==
    /\ wpc \notin {"start", "exited"}
    /\ nSignals < MaxSignals
    /\ nSignals' = nSignals + 1
    /\ wpc' = "cleanup"
    /\ cleanupCtx' = "signal"
    /\ cleanupIdx' = 1
    /\ lastChanges' = {}
    /\ UNCHANGED <<procState, spawned, proc, popened, frontend, port, termSent,
                   killSent, restartLog, exitVia, settingVars, countVars,
                   attempted, notWatch>>

\* a child exits: by itself, killed from outside, on SIGTERM, or of SIGKILL
ProcessExits ==
    /\ wpc # "exited"
    /\ \E p \in Pids :
          /\ Alive(p)
          /\ procState' = [procState EXCEPT ![p] = "exited"]
    /\ UNCHANGED <<wpc, spawned, proc, popened, frontend, port, cleanupCtx,
                   cleanupIdx, termSent, killSent, restartLog, nSignals, exitVia,
                   settingVars, historyVars, notWatch>>

\* the CLI starts: no child yet
InitWatchState ==
    /\ wpc = "start"
    /\ faulty \in FaultSets
    /\ attempted = {}
    /\ lastChanges = {}
    /\ buildDir \in BOOLEAN
    /\ backend \in BOOLEAN
    /\ subcommand \in {"run", "web", "ios", "android"}
    /\ busyPorts \in SUBSET Ports
    /\ port = RequestedPort
    /\ procState = [p \in Pids |-> "unborn"]
    /\ spawned = <<>>
    /\ proc = NoPid
    /\ popened = NoPid
    /\ frontend = NoPid
    /\ cleanupCtx = "none"
    /\ cleanupIdx = 1
    /\ termSent = {}
    /\ killSent = {}
    /\ restartLog = <<>>
    /\ nSignals = 0
    /\ exitVia = "none"
    /\ nNotifs = 0
    /\ nRestartNotifs = 0
    /\ lastNotif = "none"
    /\ nWorkerSpawns = 0
    /\ prompt = "none"

\* the orchestrator is not running
WatchIdle ==
    /\ wpc = "exited"
    /\ faulty = {}
    /\ attempted = {}
    /\ lastChanges = {}
    /\ buildDir = FALSE
    /\ backend = TRUE
    /\ subcommand = "run"
    /\ busyPorts = {}
    /\ port = RequestedPort
    /\ procState = [p \in Pids |-> "unborn"]
    /\ spawned = <<>>
    /\ proc = NoPid
    /\ popened = NoPid
    /\ frontend = NoPid
    /\ cleanupCtx = "none"
    /\ cleanupIdx = 1
    /\ termSent = {}
    /\ killSent = {}
    /\ restartLog = <<>>
    /\ nSignals = 0
    /\ exitVia = "none"
    /\ nNotifs = 0
    /\ nRestartNotifs = 0
    /\ lastNotif = "none"
    /\ nWorkerSpawns = 0
    /\ prompt = "none"

NextWatch ==
    \/ RunCommandLogic
    \/ RunWeb
    \/ WebRun
    \/ WebWait
    \/ RunIos
    \/ RunAndroid
    \/ ToolRun
    \/ ToolWait
    \/ NpmPopen
    \/ NpmAppend
    \/ NpmWait
    \/ TerminalPopen
    \/ TerminalAppend
    \/ PortCheck
    \/ WorkerPopen
    \/ WorkerAppend
    \/ NotifyChanges
    \/ RestartStop
    \/ RestartWaitDone
    \/ RestartWaitTimeout
    \/ RestartKill
    \/ WatchStops
    \/ FinallyStop
    \/ FinallyWaitDone
    \/ FinallyWaitTimeout
    \/ CleanupStop
    \/ CleanupWaitDone
    \/ CleanupWaitTimeout
    \/ CleanupClear
    \/ SignalHandler
    \/ ProcessExits

(***************************************************************************)
(* Model metaclass (db/models.py): OnRampModelMeta.__new__ and _pluralize. *)
(* Words are sequences of characters.                                      *)
(***************************************************************************)

\* longest word enumerated over WordChars
MaxWordLen == 2


\* the dict irregular of _pluralize, as pairs
Irregular ==
    { <<<<"p", "e", "r", "s", "o", "n">>, <<"p", "e", "o", "p", "l", "e">>>>,
      <<<<"c", "h", "i", "l", "d">>, <<"c", "h", "i", "l", "d", "r", "e", "n">>>>,
      <<<<"m", "o", "u", "s", "e">>, <<"m", "i", "c", "e">>>>,
      <<<<"f", "o", "o", "t">>, <<"f", "e", "e", "t">>>>,
      <<<<"t", "o", "o", "t", "h">>, <<"t", "e", "e", "t", "h">>>>,
      <<<<"g", "o", "o", "s", "e">>, <<"g", "e", "e", "s", "e">>>>,
      <<<<"m", "a", "n">>, <<"m", "e", "n">>>>,
      <<<<"w", "o", "m", "a", "n">>, <<"w", "o", "m", "e", "n">>>> }
IrregularWords == { p[1] : p \in Irregular }
IrregularPlural(w) == (CHOOSE p \in Irregular : p[1] = w)[2]

\* str.endswith
EndsWith(w, suffix) ==
    /\ Len(suffix) <= Len(w)
    /\ SubSeq(w, Len(w) - Len(suffix) + 1, Len(w)) = suffix

Vowels == {"a", "e", "i", "o", "u"}

\* w[:-n]
DropLast(w, n) == SubSeq(w, 1, Len(w) - n)

\* a _pluralize that looks the word up as given
PluralizeAsGiven(given) ==
    LET w == Lower(given)
    IN  IF given \in IrregularWords THEN IrregularPlural(given)
        ELSE IF \E suf \in {<<"s">>, <<"s", "s">>, <<"s", "h">>, <<"c", "h">>,
                             <<"x">>, <<"z">>} : EndsWith(w, suf)
        THEN w \o <<"e", "s">>
        ELSE IF EndsWith(w, <<"y">>) /\ Len(w) > 1 /\ w[Len(w) - 1] \notin Vowels
        THEN DropLast(w, 1) \o <<"i", "e", "s">>
        ELSE IF EndsWith(w, <<"f">>) THEN DropLast(w, 1) \o <<"v", "e", "s">>
        ELSE IF EndsWith(w, <<"f", "e">>) THEN DropLast(w, 2) \o <<"v", "e", "s">>
        ELSE IF EndsWith(w, <<"o">>) /\ Len(w) > 1 /\ w[Len(w) - 1] \notin Vowels
        THEN w \o <<"e", "s">>
        ELSE w \o <<"s">>

\* a _pluralize that turns every final y into ies
PluralizeAnyY(given) ==
    LET w == Lower(given)
    IN  IF w \in IrregularWords THEN IrregularPlural(w)
        ELSE IF \E suf \in {<<"s">>, <<"s", "s">>, <<"s", "h">>, <<"c", "h">>,
                             <<"x">>, <<"z">>} : EndsWith(w, suf)
        THEN w \o <<"e", "s">>
        ELSE IF EndsWith(w, <<"y">>)
        THEN DropLast(w, 1) \o <<"i", "e", "s">>
        ELSE IF EndsWith(w, <<"f">>) THEN DropLast(w, 1) \o <<"v", "e", "s">>
        ELSE IF EndsWith(w, <<"f", "e">>) THEN DropLast(w, 2) \o <<"v", "e", "s">>
        ELSE IF EndsWith(w, <<"o">>) /\ Len(w) > 1 /\ w[Len(w) - 1] \notin Vowels
        THEN w \o <<"e", "s">>
        ELSE w \o <<"s">>

\* OnRampModelMeta._pluralize
Pluralize(given) ==
    LET w == Lower(given)
    IN  IF w \in IrregularWords THEN IrregularPlural(w)
        ELSE IF \E suf \in {<<"s">>, <<"s", "s">>, <<"s", "h">>, <<"c", "h">>,
                             <<"x">>, <<"z">>} : EndsWith(w, suf)
        THEN w \o <<"e", "s">>
        ELSE IF EndsWith(w, <<"y">>) /\ Len(w) > 1 /\ w[Len(w) - 1] \notin Vowels
        THEN DropLast(w, 1) \o <<"i", "e", "s">>
        ELSE IF EndsWith(w, <<"f">>) THEN DropLast(w, 1) \o <<"v", "e", "s">>
        ELSE IF EndsWith(w, <<"f", "e">>) THEN DropLast(w, 2) \o <<"v", "e", "s">>
        ELSE IF EndsWith(w, <<"o">>) /\ Len(w) > 1 /\ w[Len(w) - 1] \notin Vowels
        THEN w \o <<"e", "s">>
        ELSE w \o <<"s">>

\* the words of the model: the irregular ones in three spellings, regular
\* ones, class names, and every word of at most MaxWordLen characters over
\* the endings the rules look at
RegularWords ==
    { <<"b", "u", "s">>,
      <<"c", "i", "t", "y">>,
      <<"l", "e", "a", "f">>,
      <<"h", "e", "r", "o">>,
      <<"c", "a", "t">>,
      <<"k", "n", "i", "f", "e">>,
      <<"b", "o", "y">>,
      <<"r", "a", "d", "i", "o">>,
      <<"b", "o", "x">>,
      <<"d", "i", "s", "h">> }
ClassNames ==
    { <<"U", "s", "e", "r">>,
      <<"C", "a", "t", "e", "g", "o", "r", "y">>,
      <<"M", "o", "d", "e", "l">>,
      <<"m", "o", "d", "e", "l">>,
      <<"P", "e", "r", "s", "o", "n">>,
      <<"W", "O", "M", "A", "N">> }
WordChars == {"a", "t", "y", "f", "e", "o", "s", "h", "c", "x", "z", "Y", "1"}
ShortWords == SeqsUpTo(WordChars, MaxWordLen) \ {<<>>}
Words ==
    IrregularWords \cup { Capitalized(w) : w \in IrregularWords }
        \cup { Upper(w) : w \in IrregularWords }
        \cup RegularWords \cup ClassNames \cup ShortWords

NoWord == <<>>

\* class Meta of a namespace: absent, or with abstract and table set or not
NoMeta == [present |-> FALSE, abstract |-> "unset", hasTable |-> FALSE,
           table |-> NoWord]
CustomTable == <<"c", "u", "s", "t", "o", "m">>
Metas ==
    {NoMeta} \cup
    { [present |-> TRUE, abstract |-> a, hasTable |-> FALSE, table |-> NoWord] :
        a \in {"unset", "true", "false"} } \cup
    { [present |-> TRUE, abstract |-> a, hasTable |-> TRUE, table |-> CustomTable] :
        a \in {"unset", "true", "false"} }

ModelClassName == <<"M", "o", "d", "e", "l">>

\* meta and getattr(meta, 'abstract', False)
IsAbstract(m) == m.present /\ m.abstract = "true"

\* a metaclass that derives the table name whether or not Meta has one
DerivesTableAlways(name, m) ==
    /\ name # ModelClassName
    /\ ~IsAbstract(m)

\* OnRampModelMeta.__new__ decides to derive the table name
DerivesTable(name, m) ==
    /\ name # ModelClassName
    /\ ~IsAbstract(m)
    /\ (~m.present \/ ~m.hasTable)

\* OnRamp's _pluralize called on its own
CallPluralize ==
    /\ mpc = "start"
    /\ plural' = Pluralize(word)
    /\ mpc' = "pluralized"
    /\ UNCHANGED <<word, meta, newMeta>>
    /\ UNCHANGED notModel

\* a class statement with the metaclass: OnRampModelMeta.__new__
MetaNew ==
    /\ mpc = "start"
    /\ IF DerivesTable(word, meta)
       THEN /\ plural' = Pluralize(word)
            /\ newMeta' = IF ~meta.present
                           THEN [NoMeta EXCEPT !.present = TRUE,
                                               !.hasTable = TRUE,
                                               !.table = Lower(Pluralize(word))]
                           ELSE [meta EXCEPT !.hasTable = TRUE,
                                             !.table = Lower(Pluralize(word))]
       ELSE /\ newMeta' = meta
            /\ UNCHANGED plural
    /\ mpc' = "defined"
    /\ UNCHANGED <<word, meta>>
    /\ UNCHANGED notModel

InitModelState ==
    /\ word \in Words
    /\ meta \in Metas
    /\ newMeta = NoMeta
    /\ mpc = "start"
    /\ plural = NoWord

\* no model class is defined
ModelsIdle ==
    /\ word = NoWord
    /\ meta = NoMeta
    /\ newMeta = NoMeta
    /\ mpc = "start"
    /\ plural = NoWord

NextModels == CallPluralize \/ MetaNew

(***************************************************************************)
(* Settings and command dispatch (cli.py): load_settings runs when the     *)
(* module is imported, main parses the command line and dispatches.        *)
(***************************************************************************)

\* the values a settings file gives BACKEND (Python literals), or none
BackendValues == {"True", "False", "None", "0"}
Unset == "unset"

\* app/settings.py: missing, or a module that may raise when executed and
\* may assign BACKEND
NoSettingsFile == [exists |-> FALSE, raises |-> FALSE, backend |-> Unset]
SettingsFiles ==
    {NoSettingsFile} \cup
    [exists : {TRUE}, raises : BOOLEAN, backend : BackendValues \cup {Unset}]

\* the object load_settings returns
SimpleNamespace(value) == [kind |-> "namespace", backend |-> value]
SettingsModule(value) == [kind |-> "module", backend |-> value]
NoSettings == [kind |-> "none", backend |-> Unset]

\* a load_settings that returns the module as it is
LoadedSettingsAsIs(file) ==
    IF ~file.exists THEN SimpleNamespace("True")
    ELSE IF file.raises THEN SimpleNamespace("True")
    ELSE SettingsModule(file.backend)

\* load_settings
LoadedSettings(file) ==
    IF ~file.exists THEN SimpleNamespace("True")
    ELSE IF file.raises THEN SimpleNamespace("True")
    ELSE IF file.backend = Unset THEN SettingsModule("True")
    ELSE SettingsModule(file.backend)

\* the command lines of the model: the documented commands and others
Commands == {"new", "run", "web", "ios", "android", "prepmigrations",
             "migrate", "repair:ios", "build", "RUN"}
CommandLines ==
    [command : Commands, name : MigrationNames, api : BOOLEAN,
     web_only : BOOLEAN]
NoArgs == [command |-> "", name |-> NoName, api |-> FALSE, web_only |-> FALSE]

\* args.name is truthy
HasName(args) == args.name # NoName /\ args.name # ""

\* the if/elif chain of main: the functions it calls for args
Dispatch(args) ==
    IF args.command = "new"
    THEN IF HasName(args)
         THEN IF ~args.api
              THEN <<"create_app_directory", "create_react_native_app">>
              ELSE <<"create_app_directory">>
         ELSE <<"usage_new">>
    ELSE IF args.command = "run"
    THEN IF args.web_only THEN <<"run_web">> ELSE <<"run_command_logic">>
    ELSE IF args.command = "ios" THEN <<"run_ios">>
    ELSE IF args.command = "android" THEN <<"run_android">>
    ELSE IF args.command = "web" THEN <<"run_web">>
    ELSE IF args.command = "prepmigrations" THEN <<"handle_prepmigrations">>
    ELSE IF args.command = "migrate" THEN <<"handle_migrate">>
    ELSE <<"invalid_command">>

\* settings = load_settings(), at import
LoadSettings ==
    /\ cpc = "import"
    /\ settings' = LoadedSettings(settingsFile)
    /\ cpc' = "loaded"
    /\ UNCHANGED <<settingsFile, argv, dispatched, project, nodeOk>>
    /\ UNCHANGED notCli

\* a directory tree: absent, or with the app and build subdirectories
\* absent, holding the user's files, or holding freshly written templates
Project(exists, app, build) == [exists |-> exists, app |-> app, build |-> build]
NoProject == Project(FALSE, "absent", "absent")
Projects ==
    {NoProject} \cup { Project(TRUE, a, b) : a, b \in {"absent", "user"} }

\* create_app_directory: nothing when the path exists, otherwise the
\* backend templates are written
CreateAppDirectory(dir, api_only) ==
    IF dir.exists THEN dir
    ELSE Project(TRUE, IF api_only THEN "api_templates" ELSE "templates",
                 dir.build)

\* create_react_native_app: require_node, which ends the process when there
\* is no usable Node; then <name>/build is made (exist_ok) and every file
\* of the frontend is written with write_text
CreateReactNativeApp(dir, node) ==
    IF ~node THEN dir ELSE Project(TRUE, dir.app, "templates")

\* the project directory after main ran `new`
NewProject(dir, args, node) ==
    IF args.command = "new" /\ HasName(args)
    THEN IF ~args.api
         THEN CreateReactNativeApp(CreateAppDirectory(dir, FALSE), node)
         ELSE CreateAppDirectory(dir, TRUE)
    ELSE dir

\* main
Main ==
    /\ cpc = "loaded"
    /\ dispatched' = Dispatch(argv)
    /\ project' = NewProject(project, argv, nodeOk)
    /\ cpc' = "returned"
    /\ UNCHANGED <<settingsFile, settings, argv, nodeOk>>
    /\ UNCHANGED notCli

InitCliState ==
    /\ cpc = "import"
    /\ settingsFile \in SettingsFiles
    /\ settings = NoSettings
    /\ argv \in CommandLines
    /\ dispatched = <<>>
    /\ project \in Projects
    /\ nodeOk \in BOOLEAN

\* the command line tool is not started
CliIdle ==
    /\ cpc = "import"
    /\ settingsFile = NoSettingsFile
    /\ settings = NoSettings
    /\ argv = NoArgs
    /\ dispatched = <<>>
    /\ project = NoProject
    /\ nodeOk = TRUE

NextCli == LoadSettings \/ Main

(***************************************************************************)
(* Specifications                                                          *)
(***************************************************************************)

InitMigrationManager ==
    InitMigrationState /\ PathsIdle /\ RoutesIdle /\ WatchIdle /\ ModelsIdle
        /\ CliIdle
SpecMigrations == InitMigrationManager /\ [][NextMigrations]_vars

InitPaths ==
    InitPathState /\ MigrationsIdle /\ RoutesIdle /\ WatchIdle /\ ModelsIdle
        /\ CliIdle
SpecPaths == InitPaths /\ [][NextPaths]_vars

InitRoutes ==
    InitRouteState /\ MigrationsIdle /\ PathsIdle /\ WatchIdle /\ ModelsIdle
        /\ CliIdle
SpecRoutes == InitRoutes /\ [][NextRoutes]_vars

InitWatch ==
    faulty = {} /\ InitWatchState /\ MigrationsIdle /\ PathsIdle /\ RoutesIdle /\ ModelsIdle
        /\ CliIdle
SpecWatch == InitWatch /\ [][NextWatch]_vars

InitModels ==
    InitModelState /\ MigrationsIdle /\ PathsIdle /\ RoutesIdle /\ WatchIdle
        /\ CliIdle
SpecModels == InitModels /\ [][NextModels]_vars

InitCli ==
    InitCliState /\ MigrationsIdle /\ PathsIdle /\ RoutesIdle /\ WatchIdle
        /\ ModelsIdle
SpecCli == InitCli /\ [][NextCli]_vars

\* _convert_response applied to one value, outside any request
InitConvert ==
    /\ lastResult \in ReturnValues
    /\ apiDirExists = FALSE
    /\ sysPath = <<SitePackages>>
    /\ apiFiles = <<>>
    /\ nextFile = 1
    /\ routes = <<>>
    /\ sysModules = {}
    /\ lastRequest = NoRequest
    /\ lastCall = NoCall
    /\ lastResponse = NoResponse
    /\ MigrationsIdle /\ PathsIdle /\ WatchIdle /\ ModelsIdle /\ CliIdle
SpecConvert == InitConvert /\ [][ConvertValue]_vars

\* the CLI (with the requested port free) whose children may be faulty
InitFaults ==
    /\ busyPorts = {}
    /\ InitWatchState
    /\ MigrationsIdle /\ PathsIdle /\ RoutesIdle /\ ModelsIdle /\ CliIdle
SpecFaults == InitFaults /\ [][NextWatch]_vars

\* a project without an api directory: the CLI (with the requested port
\* free) next to an application that discovers its routes
InitNoApiDir ==
    /\ apiDirExists = FALSE
    /\ InitRouteState
    /\ busyPorts = {}
    /\ faulty = {}
    /\ InitWatchState
    /\ MigrationsIdle /\ PathsIdle /\ ModelsIdle /\ CliIdle
NextNoApiDir == DiscoverFileRoutes \/ NextWatch
SpecNoApiDir == InitNoApiDir /\ [][NextNoApiDir]_vars

(***************************************************************************)
(* Properties                                                              *)
(***************************************************************************)

\* ---- properties of the migration manager ----

ManagerOps == {"init_migrations", "create_migration", "apply_migrations",
               "migrate_with_prep"}
CliOps == {"prepmigrations", "migrate"}

FailedSubprocess == \E i \in 1..Len(opLog) : opLog[i].rc # 0

\* C5: prepmigrations and migrate exit with 1 exactly when the underlying
\* operation failed and with 0 when it succeeded, and a failed run of the
\* migration tool is never reported as exit code 0.
C5_ExitCodeReportsFailure ==
    opName \in CliOps =>
        /\ exitCode = (IF opRet THEN 0 ELSE 1)
        /\ FailedSubprocess => exitCode # 0

\* C6: every MigrationManager operation returns False if some aerich
\* subprocess it ran exited non-zero, and True only if all of them exited 0.
C6_ReturnReportsSubprocessFailure ==
    opName \in ManagerOps => (opRet => ~FailedSubprocess)

\* C7: no aerich subprocess is run while the migration config ([tool.aerich]
\* plus db_config.py) is still absent.
C7_ConfigBeforeSubprocess ==
    \A i \in 1..Len(opLog) : opLog[i].configured

\* ---- properties of route path derivation ----

NoBrackets(s) == ~Contains(s, "[") /\ ~Contains(s, "]")

\* C8: a file name without brackets gets the path /api/<name>, except that
\* index gets /api; no other name is mapped to /api.
C8_PlainNamePath ==
    derived =>
        LET f == ModuleName(fileName)
        IN  /\ NoBrackets(f) =>
                   routePath = (IF f = IndexName THEN ApiRoot ELSE ApiPrefix \o f)
            /\ routePath = ApiRoot => f = IndexName

C8_Witness ==
    /\ derived
    /\ ModuleName(fileName) = IndexName
    /\ routePath = ApiRoot

\* s holds a group [name] with a non-empty name made of letters
HasParamGroup(s) ==
    \E i, j \in 1..Len(s) :
        /\ i + 1 < j
        /\ s[i] = "["
        /\ s[j] = "]"
        /\ \A k \in (i + 1)..(j - 1) : s[k] \in Letters

Count(s, c) == Cardinality({ i \in 1..Len(s) : s[i] = c })

\* s is pre [param] post, with no other bracket
ExactlyOneParam(s) ==
    /\ Count(s, "[") = 1
    /\ Count(s, "]") = 1
    /\ HasParamGroup(s)

\* pre {param} post for such a name
SubstituteParam(s) ==
    LET i == CHOOSE k \in 1..Len(s) : s[k] = "["
        j == CHOOSE k \in 1..Len(s) : s[k] = "]"
    IN  [k \in 1..Len(s) |-> IF k = i THEN "{" ELSE IF k = j THEN "}" ELSE s[k]]

\* the path segments (numbered by the slashes before them) that hold a
\* placeholder {name}
DynamicSegments(path) ==
    { Cardinality({ k \in 1..i : path[k] = "/" }) :
        i \in { i \in 1..Len(path) :
                  \E j \in 1..Len(path) :
                      /\ i + 1 < j
                      /\ path[i] = "{"
                      /\ path[j] = "}"
                      /\ \A k \in (i + 1)..(j - 1) : path[k] \in Letters } }

\* C9: a file name with exactly one [param] gets the /api/ path with {param}
\* substituted, and every file name that contains both "[" and "]" gets a
\* path with a single dynamic path segment.
C9_BracketNamePath ==
    derived =>
        LET f == ModuleName(fileName)
        IN  /\ ExactlyOneParam(f) => routePath = ApiPrefix \o SubstituteParam(f)
            /\ (Contains(f, "[") /\ Contains(f, "]")) =>
                   Cardinality(DynamicSegments(routePath)) = 1

\* ---- properties of dispatch ----

Served == lastRequest.route # 0
ServedRoute == routes[lastRequest.route]

\* C1: a request for a registered route with a method for which the route
\* file defines no handler is answered with status 405 and a JSON body
\* {"error": ...}.
C1_MethodNotAllowedJson ==
    (Served /\ lastRequest.method \notin DOMAIN ServedRoute.handlers) =>
        /\ lastResponse.status = 405
        /\ lastResponse.kind = "json"
        /\ lastResponse.body.keys = {"error"}

\* C10: a handler declared with 0 parameters is called without arguments,
\* with 1 parameter with the request only, with 2 or more with the request
\* and the path parameters, whichever of the three wrappers runs it.
C10_ArgumentsByArity ==
    (Served /\ lastRequest.method \in DOMAIN ServedRoute.handlers) =>
        LET f == ServedRoute.funcs[lastRequest.method]
        IN  /\ lastCall.wrapper \in {"sync_wrapper", "async_wrapper",
                                     "default_async_wrapper"}
            /\ f.params = 0 => lastCall.args = <<>>
            /\ f.params = 1 => lastCall.args = <<"request">>
            /\ f.params >= 2 => lastCall.args = <<"request", "params">>

C10_Witness ==
    /\ Served
    /\ lastRequest.method \in DOMAIN ServedRoute.handlers
    /\ ServedRoute.funcs[lastRequest.method].params = 1
    /\ lastCall.wrapper = "async_wrapper"
    /\ lastCall.args = <<"request">>

\* a handler ran for the last request
HandlerRan == Served /\ lastCall # NoCall

\* the characters of a string that are not blank, in order
NonBlank(text) == SelectSeq(text, LAMBDA c : c # " ")

\* the first and the last character other than whitespace are < and >
LooksLikeTag(text) ==
    /\ NonBlank(text) # <<>>
    /\ Head(NonBlank(text)) = "<"
    /\ NonBlank(text)[Len(NonBlank(text))] = ">"

\* C11: a dict returned by a handler yields a JSON response whose body is
\* that dict; a returned string that starts with < and ends with > once
\* whitespace is stripped yields an HTML response of that string; any other
\* string yields a plain-text response of that string.
C11_DictAndStringResponses ==
    HandlerRan =>
        /\ lastResult.type = "dict" =>
               lastResponse = Response("json", 200, lastResult)
        /\ (lastResult.type = "str" /\ LooksLikeTag(lastResult.text)) =>
               lastResponse = Response("html", 200, lastResult)
        /\ (lastResult.type = "str" /\ ~LooksLikeTag(lastResult.text)) =>
               lastResponse = Response("text", 200, lastResult)

C11_Witness ==
    /\ HandlerRan
    /\ lastResult.type = "str"
    /\ lastResult.text = <<" ", "<", "b", ">", " ">>
    /\ lastResponse.kind = "html"

\* the files discover_file_routes has loaded so far
Loaded == { i \in 1..Len(apiFiles) : i < nextFile }

\* create_app is past discover_file_routes
Discovered == nextFile > Len(apiFiles)

\* C13: a route file whose import raises contributes no route and leaves no
\* entry in sys.modules; loading it changes no registered route and moves on
\* to the next file, so that after discovery the application has exactly
\* the routes of the other files.
C13_FailedImportSkipped ==
    /\ [](\A i \in Loaded :
             apiFiles[i].raises =>
                 /\ UniqueModuleName(apiFiles[i]) \notin sysModules
                 /\ \A r \in 1..Len(routes) :
                        routes[r].path # RoutePath(apiFiles[i].name))
    /\ [](Discovered =>
             Len(routes) = Cardinality({ i \in 1..Len(apiFiles) :
                                          /\ ~apiFiles[i].raises
                                          /\ SupportedMethods(apiFiles[i]) # <<>> }))
    /\ [][(nextFile \in 1..Len(apiFiles) /\ apiFiles[nextFile].raises
             /\ nextFile' # nextFile)
              => (routes' = routes /\ nextFile' = nextFile + 1)]_vars

C13_Witness ==
    /\ Discovered
    /\ Len(apiFiles) = 2
    /\ apiFiles[1].raises
    /\ apiFiles[1].attrs["GET"].callable
    /\ ~apiFiles[2].raises
    /\ Len(routes) = 1
    /\ HandlerRan

\* the verbs for which a route file has a callable of that name
CallableVerbs(file) ==
    { m \in Methods : file.attrs[m].present /\ file.attrs[m].callable }

\* the files loaded so far that imported and have such a callable, in order
EligibleLoaded ==
    SelectSeq(SubSeq(apiFiles, 1, nextFile - 1),
              LAMBDA f : ~f.raises /\ CallableVerbs(f) # {})

\* C14: the registered routes are, in order, one route for each loaded file
\* that has a callable named after a verb (so a file with none contributes
\* no route); each has at least one handler, and its handlers and the
\* methods it is registered for are exactly the verbs with a callable, so a
\* request reaches a handler exactly for those verbs and is answered 405
\* for the others.
C14_RoutesMatchCallables ==
    /\ Len(routes) = Len(EligibleLoaded)
    /\ \A k \in 1..Len(routes) :
          /\ k <= Len(EligibleLoaded)
          /\ routes[k].path = RoutePath(EligibleLoaded[k].name)
          /\ DOMAIN routes[k].handlers # {}
          /\ DOMAIN routes[k].handlers = CallableVerbs(EligibleLoaded[k])
          /\ SeqToSet(routes[k].supported) = CallableVerbs(EligibleLoaded[k])
    /\ Served =>
          IF lastRequest.method \in CallableVerbs(EligibleLoaded[lastRequest.route])
          THEN lastCall # NoCall
          ELSE lastCall = NoCall /\ lastResponse.status = 405

C14_Witness ==
    /\ Discovered
    /\ Len(apiFiles) = 2
    /\ ~apiFiles[1].raises /\ ~apiFiles[2].raises
    /\ CallableVerbs(apiFiles[1]) = {}
    /\ apiFiles[2].attrs["PUT"].present
    /\ CallableVerbs(apiFiles[2]) = {"GET"}
    /\ Len(routes) = 1
    /\ Served /\ lastRequest.method = "PUT" /\ lastResponse.status = 405

\* ---- properties of the model metaclass ----

\* the plurals the documentation lists: the irregular words and five regular
\* ones
ListedPlurals ==
    { <<<<"p", "e", "r", "s", "o", "n">>, <<"p", "e", "o", "p", "l", "e">>>>,
      <<<<"c", "h", "i", "l", "d">>, <<"c", "h", "i", "l", "d", "r", "e", "n">>>>,
      <<<<"m", "o", "u", "s", "e">>, <<"m", "i", "c", "e">>>>,
      <<<<"f", "o", "o", "t">>, <<"f", "e", "e", "t">>>>,
      <<<<"t", "o", "o", "t", "h">>, <<"t", "e", "e", "t", "h">>>>,
      <<<<"g", "o", "o", "s", "e">>, <<"g", "e", "e", "s", "e">>>>,
      <<<<"m", "a", "n">>, <<"m", "e", "n">>>>,
      <<<<"w", "o", "m", "a", "n">>, <<"w", "o", "m", "e", "n">>>>,
      <<<<"b", "u", "s">>, <<"b", "u", "s", "e", "s">>>>,
      <<<<"c", "i", "t", "y">>, <<"c", "i", "t", "i", "e", "s">>>>,
      <<<<"l", "e", "a", "f">>, <<"l", "e", "a", "v", "e", "s">>>>,
      <<<<"h", "e", "r", "o">>, <<"h", "e", "r", "o", "e", "s">>>>,
      <<<<"c", "a", "t">>, <<"c", "a", "t", "s">>>> }

\* the tables of the models of the project template
TemplateTables ==
    { <<<<"U", "s", "e", "r">>, <<"u", "s", "e", "r", "s">>>>,
      <<<<"C", "a", "t", "e", "g", "o", "r", "y">>, <<"c", "a", "t", "e", "g", "o", "r", "i", "e", "s">>>> }

\* C12: _pluralize returns the listed plural for every irregular word in any
\* spelling of upper and lower case, and buses, cities, leaves, heroes, cats
\* for bus, city, leaf, hero, cat; the template models User and Category,
\* which have no Meta, get the tables users and categories.
C12_ListedPlurals ==
    /\ mpc = "pluralized" =>
           \A p \in ListedPlurals : Lower(word) = p[1] => plural = p[2]
    /\ (mpc = "defined" /\ meta = NoMeta) =>
           \A t \in TemplateTables :
               word = t[1] => (newMeta.hasTable /\ newMeta.table = t[2])

C12_Witness ==
    /\ mpc = "pluralized"
    /\ word = <<"W", "O", "M", "A", "N">>
    /\ plural = <<"w", "o", "m", "e", "n">>

\* C19: the metaclass sets the table name, to the lowercase plural of the
\* class name, only when Meta does not define table: a table set explicitly
\* is kept, an abstract model and a class named Model get no derived table
\* and an unchanged Meta, and nothing else of Meta changes. The derived name
\* is a function of the class name alone.
C19_TableNameOnlyWhenUnset ==
    mpc = "defined" =>
        /\ meta.hasTable => newMeta = meta
        /\ (word = ModelClassName \/ (meta.present /\ meta.abstract = "true")) =>
               newMeta = meta
        /\ (~meta.hasTable /\ word # ModelClassName
              /\ ~(meta.present /\ meta.abstract = "true")) =>
               /\ newMeta.present
               /\ newMeta.hasTable
               /\ newMeta.table = Lower(Pluralize(word))
               /\ newMeta.abstract = meta.abstract

C19_Witness ==
    /\ mpc = "defined"
    /\ word = <<"P", "e", "r", "s", "o", "n">>
    /\ meta.present /\ meta.abstract = "false" /\ meta.hasTable
    /\ newMeta.table = CustomTable

\* ---- properties of settings and command dispatch ----

\* the subcommands of the documented command line surface
ListedCommands == {"new", "run", "web", "ios", "android", "prepmigrations",
                   "migrate", "repair:ios"}

\* C15: main dispatches each listed subcommand to a workflow of its own and
\* never to the invalid-command branch.
C15_ListedCommandsDispatched ==
    (cpc = "returned" /\ argv.command \in ListedCommands) =>
        /\ dispatched # <<>>
        /\ dispatched # <<"invalid_command">>

\* C16: load_settings returns an object with a BACKEND attribute; BACKEND is
\* True when the settings file is absent, fails to import or does not
\* define BACKEND, and is the file's value otherwise.
C16_BackendDefault ==
    cpc # "import" =>
        /\ settings.kind \in {"namespace", "module"}
        /\ settings.backend # Unset
        /\ (~settingsFile.exists \/ settingsFile.raises
              \/ settingsFile.backend = Unset) => settings.backend = "True"
        /\ (settingsFile.exists /\ ~settingsFile.raises
              /\ settingsFile.backend # Unset) =>
                 settings.backend = settingsFile.backend

C16_Witness ==
    /\ cpc = "loaded"
    /\ settingsFile.exists /\ ~settingsFile.raises
    /\ settingsFile.backend = Unset
    /\ settings = SettingsModule("True")

\* ---- properties of the process orchestrator ----

\* the children that were appended to spawned_processes: all that were
\* started, but the one just started and those of subprocess.run (the
\* bundler of run_web, the tools of run_ios and run_android)
Recorded ==
    { p \in Pids : /\ procState[p] # "unborn"
                   /\ p # popened
                   /\ subcommand = "run" }

\* C2: while the watch loop runs, every notification that holds a path
\* matching no ignore pattern makes exactly one new worker (also when the
\* current worker died before), and a notification whose paths all match
\* makes none and leaves the current worker untouched.
C2_OneRestartPerChange ==
    /\ [](wpc = "watching" => nWorkerSpawns = 1 + nRestartNotifs)
    /\ [][(nNotifs' = nNotifs + 1 /\ lastNotif' = "ignored") =>
              /\ wpc' = "watching"
              /\ UNCHANGED <<proc, procState, spawned, termSent, killSent,
                             nWorkerSpawns>>]_vars

C2_Witness ==
    /\ wpc = "watching"
    /\ nNotifs = 2
    /\ nRestartNotifs = 1
    /\ lastNotif = "ignored"
    /\ nWorkerSpawns = 2
    /\ restartLog = <<"spawn">>

RestartOrders ==
    { <<>>, <<"spawn">>,
      <<"terminate">>,
      <<"terminate", "wait_exit">>,
      <<"terminate", "wait_exit", "spawn">>,
      <<"terminate", "wait_timeout">>,
      <<"terminate", "wait_timeout", "kill">>,
      <<"terminate", "wait_timeout", "kill", "spawn">> }

C17_BackendSettingDecides ==
    subcommand = "run" =>
        /\ nWorkerSpawns > 0 => backend
        /\ backend => wpc \notin {"npm_popen", "npm_append", "npm_wait"}

\* q is the smallest port above the requested one on which nothing listens
SmallestFreeAbove(q) ==
    /\ q > RequestedPort
    /\ q \notin busyPorts
    /\ \A r \in (RequestedPort + 1)..(q - 1) : r \in busyPorts

\* C18: the prompt appears only when the requested port is in use; without
\* it the worker runs on the requested port; once the user accepted, the
\* port is the smallest one above the requested port that is not in use;
\* once the user declined, no worker is ever started and the function is in
\* its finally block or has returned.
C18_PortPrompt ==
    /\ prompt = "none" =>
           /\ port = RequestedPort
           /\ nWorkerSpawns > 0 => RequestedPort \notin busyPorts
    /\ prompt = "accepted" =>
           /\ RequestedPort \in busyPorts
           /\ SmallestFreeAbove(port)
    /\ prompt = "declined" =>
           /\ RequestedPort \in busyPorts
           /\ port = RequestedPort
           /\ nWorkerSpawns = 0
           /\ proc = NoPid
           /\ wpc \in {"finally", "cleanup", "cleanup_wait", "exited"}

C18_Witness ==
    /\ prompt = "accepted"
    /\ busyPorts = {RequestedPort, RequestedPort + 1}
    /\ port = RequestedPort + 2
    /\ wpc = "watching"
    /\ nWorkerSpawns = 1

\* C20: until cleanup, every child of the CLI that is running is in
\* spawned_processes, from the moment it is started.
C20_StartedChildrenRecorded ==
    wpc \notin {"cleanup", "cleanup_wait", "exited"} =>
        \A p \in Pids : Alive(p) => p \in SeqToSet(spawned)

\* ---- properties of the handler adapter ----

Wrappers == {"sync_wrapper", "async_wrapper", "default_async_wrapper"}

\* C22: the marker of @sync is looked at before async def: a marked handler
\* gets sync_wrapper whatever else it is, an unmarked async def gets
\* async_wrapper, any other handler default_async_wrapper, so every handler
\* has exactly one of the three; marked and plain handlers are called on a
\* worker thread, unmarked async ones are awaited on the event loop; what the
\* call evaluates to always goes through _convert_response.
C22_WrapperByMarkerThenAsync ==
    /\ \A r \in 1..Len(routes) : \A m \in DOMAIN routes[r].handlers :
           LET f == routes[r].funcs[m]
               h == routes[r].handlers[m]
           IN  /\ h.wrapper \in Wrappers
               /\ h.wrapper = "sync_wrapper" <=> f.marked
               /\ h.wrapper = "async_wrapper" <=> (~f.marked /\ f.coroutine)
               /\ h.wrapper = "default_async_wrapper" <=>
                      (~f.marked /\ ~f.coroutine)
               /\ h.runs = (IF h.wrapper = "async_wrapper" THEN "loop"
                            ELSE "executor")
    /\ HandlerRan =>
           /\ lastCall = ServedRoute.handlers[lastRequest.method]
           /\ lastResponse = ConvertResponse(lastResult)

C22_Witness ==
    /\ HandlerRan
    /\ ServedRoute.funcs[lastRequest.method].marked
    /\ ServedRoute.funcs[lastRequest.method].coroutine
    /\ lastCall.wrapper = "sync_wrapper"
    /\ lastCall.runs = "executor"
    /\ lastResult = CoroutineObject
    /\ lastResponse.kind = "text"

\* the value _convert_response was given has been converted
Converted == lastRequest = NoRequest /\ lastResponse # NoResponse

\* C23: _convert_response answers every value, by the first case that
\* applies: a value with a status_code attribute is returned as it is,
\* whatever its type; without one, a list or tuple gives JSON, an int, float
\* or bool gives JSON, None gives an empty plain-text response, and a value
\* of none of the types the conversion names gives plain text of its string
\* form (dicts and strings are the cases of C11).
C23_ConversionPrecedence ==
    Converted =>
        /\ lastResponse.kind \in {"raw", "json", "html", "text"}
        /\ HasStatusCode(lastResult) =>
               lastResponse = Response("raw", lastResult.status, lastResult)
        /\ ~HasStatusCode(lastResult) =>
               /\ lastResponse.kind # "raw"
               /\ lastResult.type \in {"list", "tuple", "int", "float", "bool"} =>
                      lastResponse = Response("json", 200, lastResult)
               /\ lastResult.type = "none" =>
                      lastResponse = Response("text", 200, Value("str", {}, <<>>, 0))
               /\ lastResult.type = "object" =>
                      lastResponse =
                          Response("text", 200,
                                   Value("str", {}, lastResult.text, 0))
               /\ lastResult.type = "dict" => lastResponse.kind = "json"
               /\ lastResult.type = "str" => lastResponse.kind \in {"html", "text"}

C23_Witness ==
    /\ Converted
    /\ lastResult.type = "list"
    /\ HasStatusCode(lastResult)
    /\ lastResponse.kind = "raw"

\* ---- properties of the commands when a directory is missing ----

\* the children started so far
Started == { p \in Pids : procState[p] # "unborn" }

\* C21: a missing directory degrades the operation instead of failing it:
\* discover_file_routes without an api directory registers no route and
\* leaves sys.path as it was; run without a build directory goes straight
\* to the backend watcher and starts nothing but workers; web, ios and
\* android without a build directory return without starting any process.
C21_MissingDirectoryDegrades ==
    /\ [](~apiDirExists => routes = <<>> /\ sysModules = {})
    /\ [][(~apiDirExists /\ nextFile' # nextFile) => sysPath' = sysPath]_vars
    /\ []((subcommand = "run" /\ ~buildDir) =>
             /\ frontend = NoPid
             /\ Cardinality(Started) = nWorkerSpawns
             /\ wpc \notin {"npm_popen", "npm_append", "npm_wait",
                             "terminal_popen", "terminal_append"})
    /\ [][(wpc = "start" /\ subcommand = "run" /\ ~buildDir /\ wpc' # wpc)
              => wpc' = "port_check"]_vars
    /\ []((subcommand \in {"web", "ios", "android"} /\ ~buildDir) =>
             /\ Started = {}
             /\ wpc \in {"start", "cleanup", "exited"}
             /\ wpc = "cleanup" => cleanupCtx \in {"atexit", "signal"})

C21_Witness ==
    /\ ~apiDirExists
    /\ nextFile = 1
    /\ sysPath = <<SitePackages>>
    /\ subcommand = "android"
    /\ ~buildDir
    /\ wpc = "exited"
    /\ exitVia = "atexit"

\* ---- properties of the pluralizer ----

\* the last character of w is c and the one before it is in the set before
EndsInAfter(w, c, before) ==
    /\ Len(w) > 1
    /\ w[Len(w)] = c
    /\ w[Len(w) - 1] \in before

\* the ordered suffix rules for a lowercase word: fForm is what the f rule
\* puts in the place of a final f or fe, before the characters that count
\* as a consonant in front of a final y or o
SuffixRules(w, fForm, before) ==
    IF \E suf \in {<<"s">>, <<"s", "s">>, <<"s", "h">>, <<"c", "h">>, <<"x">>,
                   <<"z">>} : EndsWith(w, suf)
    THEN w \o <<"e", "s">>
    ELSE IF EndsInAfter(w, "y", before) THEN DropLast(w, 1) \o <<"i", "e", "s">>
    ELSE IF EndsWith(w, <<"f">>) THEN DropLast(w, 1) \o fForm
    ELSE IF EndsWith(w, <<"f", "e">>) THEN DropLast(w, 2) \o fForm
    ELSE IF EndsInAfter(w, "o", before) THEN w \o <<"e", "s">>
    ELSE w \o <<"s">>

\* the consonants, and the characters of the model that are not vowels
Consonants == SeqToSet(LowerLetters) \ Vowels
NonVowels == (WordChars \cup SeqToSet(LowerLetters)) \ Vowels

\* _pluralize returned for a word whose lowercase form is not irregular
RegularPluralized == mpc = "pluralized" /\ Lower(word) \notin IrregularWords

InCleanup == wpc \in {"cleanup", "cleanup_wait"}

\* C25: cleanup_processes never raises, whatever poll, terminate, wait or
\* kill do: it is left only through spawned_processes.clear(), after it
\* polled every tracked process; it sends kill only to a process it sent
\* terminate and whose wait expired; it sends nothing to a process that has
\* exited; it leaves spawned_processes empty, so that a second call sends
\* nothing.
C25_CleanupBestEffort ==
    /\ [](wpc = "exited" => spawned = <<>>)
    /\ [][InCleanup =>
             /\ spawned' \in {spawned, <<>>}
             /\ InCleanup' \/ wpc' = "exited"
             /\ (wpc' = "exited"
                   \/ (cleanupCtx = "finally" /\ cleanupCtx' = "atexit"))
                    => spawned' = <<>>
             /\ (spawned # <<>> /\ spawned' = <<>>)
                    => SeqToSet(spawned) \subseteq attempted
             /\ \A p \in Pids :
                   /\ (p \in killSent' /\ p \notin killSent) =>
                          /\ wpc = "cleanup_wait"
                          /\ p = spawned[cleanupIdx]
                          /\ p \in termSent
                          /\ procState[p] # "exited"
                   /\ procState[p] = "exited" =>
                          /\ p \in termSent' <=> p \in termSent
                          /\ p \in killSent' <=> p \in killSent
             /\ spawned = <<>> =>
                    (termSent' = termSent /\ killSent' = killSent)]_vars

\* a cleanup went past a faulty child that was still running, and the CLI
\* then ended through the second, empty cleanup
C25_Witness ==
    /\ wpc = "exited"
    /\ exitVia = "atexit"
    /\ spawned = <<>>
    /\ Cardinality(attempted) = 2
    /\ \E p \in attempted : p \in faulty /\ procState[p] = "running"
    /\ \E p \in attempted : p \in killSent

\* ---- properties of the change filter ----

\* some ignore pattern occurs at some place of the path
HasPatternSomewhere(path) ==
    \E i \in 1..Len(path) : <<path[i]>> \in IgnorePatterns

\* C26: a change is ignored exactly when one of the ignore patterns occurs
\* somewhere in its full path, in a directory name as well as in the file
\* name or extension; a notification starts a restart iff at least one of
\* its changes is not ignored.
C26_IgnoredBySubstring ==
    [][nNotifs' = nNotifs + 1 =>
          /\ lastChanges' \in ChangeSets
          /\ wpc' = "restart_stop" <=>
                 (\E c \in lastChanges' : ~HasPatternSomewhere(c))
          /\ wpc' # "restart_stop" =>
                 UNCHANGED <<wpc, proc, procState, spawned, termSent, killSent>>]_vars

\* a notification of a change under a directory named like a pattern, with a
\* file name that matches none, was skipped
C26_Witness ==
    /\ wpc = "watching"
    /\ nNotifs > 0
    /\ lastNotif = "ignored"
    /\ lastChanges = { <<"/", "app", "/", ".log", "/", "main", ".py">> }

\* ---- properties of the worker under faults and signals ----

\* the backend workers started so far by run_uvicorn_with_watch
Workers ==
    { p \in Pids : /\ procState[p] # "unborn"
                   /\ subcommand = "run"
                   /\ p # frontend
                   /\ ~(wpc \in {"npm_append", "terminal_append"} /\ p = popened) }

\* run_uvicorn_with_watch has been entered and has not returned
WatchActive ==
    \/ wpc \in {"port_check", "worker_popen", "worker_append", "watching",
                "restart_stop", "restart_wait", "restart_kill", "finally",
                "finally_wait"}
    \/ InCleanup /\ cleanupCtx = "finally"

\* C27: while run_uvicorn_with_watch is active at most one worker it
\* started is running (a worker that was sent kill counts as stopped): no
\* replacement is started while the previous worker runs, also after a
\* force kill and after an exception of the calls that stop it.
C27_AtMostOneWorker ==
    WatchActive => Cardinality({ p \in Workers : procState[p] = "running" }) <= 1

\* C28: when the CLI has exited through the signal handler after the watch
\* loop started a worker, no child it started is running, wherever the
\* signal was delivered: also between Popen and the append of a worker, and
\* during a cleanup or a restart.
C28_NoChildLeftOnSignalExit ==
    (subcommand = "run" /\ wpc = "exited" /\ exitVia = "signal"
        /\ nWorkerSpawns > 0) =>
        \A p \in Pids : procState[p] # "running"

\* ---- properties of project creation ----

\* C29: `new <name>` leaves an existing directory of that name as it is,
\* with and without --api: nothing is created or overwritten in it.
C29_ExistingProjectUntouched ==
    [][(cpc = "loaded" /\ argv.command = "new" /\ HasName(argv)
           /\ project.exists) => project' = project]_vars

\* ---- migrate_with_prep: create, then apply ----

\* the positions of the log that hold the aerich subcommand cmd
Issued(log, cmd) == { i \in 1..Len(log) : log[i].command[1] = cmd }

\* C30: migrate_with_prep on a project whose migrations directory exists
\* issues upgrade only after a migrate that exited 0, and a failed migrate
\* makes it return False with no upgrade issued; on a project without the
\* directory it issues init-db alone, neither migrate nor upgrade.
C30_CreateThenApply ==
    [][ (calls' = calls + 1 /\ opName' \in {"migrate_with_prep", "migrate"}) =>
          IF fs.migrations
          THEN /\ \A i \in Issued(opLog', "upgrade") :
                     \E j \in Issued(opLog', "migrate") :
                         j < i /\ opLog'[j].rc = 0
               /\ (\E j \in Issued(opLog', "migrate") : opLog'[j].rc # 0) =>
                     (~opRet' /\ Issued(opLog', "upgrade") = {})
               /\ Issued(opLog', "migrate") # {}
          ELSE /\ Issued(opLog', "init-db") = 1..Len(opLog')
               /\ Len(opLog') = 1 ]_vars

\* migrate_with_prep found the directory, created a migration and applied it
C30_Witness ==
    /\ opName = "migrate_with_prep"
    /\ Len(opLog) = 2
    /\ opLog[1].command[1] = "migrate" /\ opLog[1].rc = 0
    /\ opLog[2].command = <<"upgrade">>

====
